---------------------------- MODULE Spec2Model ----------------------------
(***************************************************************************)
(* A model of the logslimmer clustering engine: the worker pool and the    *)
(* worker message handler, the three memoizing caches, MinHash and the LSH *)
(* index, and the flat and hierarchical clustering strategies.             *)
(***************************************************************************)
EXTENDS Integers, Sequences, FiniteSets, TLC

\* Worker pool (src/utils/array-sampling.js) and the workers' message handler
\* (src/utils/worker-setup.js, src/worker-similarity.js).
VARIABLES
    workers,            \* WorkerPool.workers: the constructed workers, by construction index
    queue,              \* WorkerPool.queue: task ids waiting for dispatch
    activeTaskCounts,   \* WorkerPool.activeTaskCounts
    taskMap,            \* WorkerPool.taskMap: ids of the dispatched tasks
    taskIdCounter,      \* WorkerPool.taskIdCounter
    taskMessage,        \* the message of each task created by run()
    future,             \* the promise run() returned for each task
    inbox,              \* per worker: messages posted to it, not yet handled
    outbox,             \* per worker: messages it posted, not yet handled by the pool
    delivered,          \* history: the replies handleMessage has processed
    errors,             \* the error events handleError has logged
    assigned,           \* history: the worker each task was posted to
    stranded            \* history: the tasks in flight on a worker at its error event

\* One cache at a time: TokenizationCache (src/utils/tokenization-cache.js),
\* PatternDetectionCache (part_010) or the TF-IDF cache (part_013).
VARIABLES
    cacheKind,      \* which cache this is: "tokenization", "pattern" or "tfidf"
    cacheMax,       \* maxSize
    cacheMap,       \* the cache Map, as its entries in insertion order
    accessOrder,    \* accessOrder (tokenization and TF-IDF caches)
    recency,        \* history: the stored keys, the least recently accessed first
    lookup          \* history: the last lookup, its arguments and what it returned

\* An LSHIndex (src/log-pipeline/similarity-utils.js).
VARIABLES
    lshIndex,       \* the index: bands (one Map per band) and items
    lshQuery        \* history: the last call, its arguments and what it returned

\* One call of buildClustersNoEmbeddings (part_008) after another.
VARIABLES
    events,             \* the event list given to every run
    variables,          \* event.variables of each event: placeholder -> Set of values
    templateLines,      \* event.templateLines of each event
    captured,           \* history: the variables of each event before the first run
    features,           \* ENHANCED_FEATURES: hierarchicalClustering, enhancedTokenization
    adaptiveConfig,     \* CLUSTERING_CONFIG.textBased.adaptive
    phase,              \* where the run is: "start", "flat", "hierarchical", "returned"
    cursor,             \* buildClustersAbstract: events handled so far
    clusters,           \* the clusters being built (a Map when flat, a list when hierarchical)
    strategy,           \* the TextBasedStrategy: its tokenizer choice and its two caches
    eventSignatures,    \* performHierarchicalClustering: the MinHash signature of each event
    level,              \* performHierarchicalClustering: the pass, 1 to 3
    unassignedEvents,   \* clusterAtLevelLSH: events of this pass without a cluster yet
    processedEvents,    \* performHierarchicalClustering: events placed in a cluster
    returned,           \* the cluster list the run returned
    firstReturned,      \* history: the cluster list the first run returned
    checkedKeys         \* the keys findSimilarClusterKey went through for the last event

\* One call of splitIntoEvents (src/log-pipeline/log-processor.js).
VARIABLES
    inputLines,         \* the lines of the input text
    logEvents,          \* the events splitIntoEvents returned
    splitReturned       \* whether splitIntoEvents has returned

\* One worker after setupWorker (src/utils/worker-setup.js).
VARIABLES
    requests,           \* the messages the worker received, in order
    invocations,        \* per request: the handler's promise, the timer, the race
    posts,              \* the messages the worker posted, in order
    warnings            \* the unknown message types the worker logged

\* One call of compressLog (src/worker-logslimmer.js).
VARIABLES
    pipelineInput,      \* the input text: its length and its numbers of events
    pipelinePhase,      \* "start", "clustering", "returned" or "failed"
    pipelineOutcome,    \* what the call returned, or the error it threw
    clusteredEvents     \* the events assigned to a cluster so far

\* One call of getLogPipelineConfig (part_003).
VARIABLES
    overrides,          \* the overrides given to the call
    configCalled,       \* whether the call was made
    configResult        \* what the call returned, or that it threw

\* One reading of event.originalLines (log-processor.js, part_011).
VARIABLES
    compressedLines,    \* event._compressedOriginalLines, a string
    linesRead,          \* whether originalLines was read
    decompressResult,   \* what Compression.decompress returned
    originalLines       \* what the getter returned

\* One call of weightedJaccardSimilarity (enhanced-tokenizer.js).
VARIABLES
    leftTokens,         \* the first token list
    rightTokens,        \* the second token list
    jaccardResult       \* what the call returned, a rational, empty before

\* One resolution of the pipeline configuration (part_003, log-processor.js).
VARIABLES
    argumentOverrides,  \* the overrides argument of getLogPipelineConfig
    globalOverrides,    \* globalThis.LOGSLIMMER_CONFIG
    envOverrides,       \* LOGSLIMMER_CONFIG_JSON, parsed
    resolvedConfig      \* what getLogPipelineConfig returned, empty before

\* Two calls of buildClustersNoEmbeddings in flight at once (part_008, part_004).
VARIABLES
    clusterings         \* per call: its events, strategy, cluster Map and position

\* The worker pool from construction to terminate(), with any worker script.
VARIABLES
    terminated,         \* history: WorkerPool.terminate() was called
    refused,            \* history: a run() call threw for lack of workers
    scriptPosts         \* history: the messages the worker scripts posted on their own

\* calculateAdaptiveThresholds (part_008) on two datasets.
VARIABLES
    smallerDataset,     \* a dataset: the number of its events, the length of a signature
    largerDataset,      \* a dataset of no fewer events and no shorter signatures
    smallerThresholds,  \* the thresholds of the first dataset, empty before
    largerThresholds    \* the thresholds of the second dataset, empty before

\* An event made by createEvent (log-processor.js) from lines.
VARIABLES
    rawText             \* lines.join('\n'), the text createEvent compressed

\* One computeSignatures request to the similarity worker (src/worker-similarity.js).
VARIABLES
    requestItems,       \* data.events of the request
    workerResults       \* the results of the reply, empty before

poolVars == <<workers, queue, activeTaskCounts, taskMap, taskIdCounter,
              taskMessage, future, inbox, outbox, delivered, errors, assigned,
              stranded>>
cacheVars == <<cacheKind, cacheMax, cacheMap, accessOrder, recency, lookup>>
lshVars == <<lshIndex, lshQuery>>
clusterVars == <<events, variables, templateLines, captured, features, adaptiveConfig, phase, cursor, clusters,
                 strategy, eventSignatures, level, unassignedEvents,
                 processedEvents, returned, firstReturned, checkedKeys>>
splitVars == <<inputLines, logEvents, splitReturned>>
textVars == <<splitVars>>
setupVars == <<requests, invocations, posts, warnings>>
pipelineVars == <<pipelineInput, pipelinePhase, pipelineOutcome, clusteredEvents>>
configVars == <<overrides, configCalled, configResult>>
storageVars == <<compressedLines, linesRead, decompressResult, originalLines>>
jaccardVars == <<leftTokens, rightTokens, jaccardResult>>
keyVars == <<argumentOverrides, globalOverrides, envOverrides, resolvedConfig>>
concurrentVars == <<clusterings>>
lifecycleVars == <<terminated, refused, scriptPosts>>
thresholdVars == <<smallerDataset, largerDataset, smallerThresholds, largerThresholds>>
signatureVars == <<requestItems, workerResults>>
roundTripVars == <<rawText>>
afterVars == <<thresholdVars, signatureVars, roundTripVars>>
laterVars == <<lifecycleVars, afterVars>>
moreVars == <<jaccardVars, keyVars, concurrentVars, laterVars>>
restVars == <<pipelineVars, configVars, storageVars, moreVars>>
vars == <<poolVars, cacheVars, lshVars, clusterVars, textVars, setupVars, restVars>>

(***************************************************************************)
(* Worker pool.                                                            *)
(***************************************************************************)
\* Bounds of the pool model.
PoolSize == 2
MaxTasks == 2
MaxErrors == 1

\* The value of a field that a message does not carry (JavaScript undefined).
UndefinedId == 0
Undefined == "undefined"

WorkerIndex == 0 .. (PoolSize - 1)
TaskIds == 1 .. MaxTasks

\* The handlers registered by worker-similarity.js.
Handlers == {"computeSignatures"}
MessageTypes == {"computeSignatures", "ping"}
\* The data field of a payload: an event list, or no data field at all.
PayloadData == {"events", Undefined}

Pending == [state |-> "pending", value |-> Undefined]

\* setupWorker: the script-loaded notification posted when the worker starts.
ScriptLoaded ==
    [type |-> "log", id |-> UndefinedId, data |-> "script loaded", cause |-> UndefinedId]

\* The worker at the last position, whatever the counts.
LastWorker(ws, counts) == Len(ws)

\* WorkerPool.processQueue: the least busy worker, the lowest position winning ties;
\* 0 when there is no worker.
BestWorker(ws, counts) ==
    IF Len(ws) = 0 THEN 0
    ELSE CHOOSE i \in 1 .. Len(ws) :
            \A j \in 1 .. Len(ws) :
                \/ counts[i - 1] < counts[j - 1]
                \/ (counts[i - 1] = counts[j - 1] /\ i <= j)

\* WorkerPool.processQueue: the head task of queue q is posted to the least busy worker.
ProcessQueue(q, counts, tmap, inb, messages) ==
    LET best == BestWorker(workers, counts) IN
    IF Len(q) = 0 \/ best = 0
    THEN [queue |-> q, counts |-> counts, taskMap |-> tmap, inbox |-> inb,
          posted |-> {}]
    ELSE [queue |-> Tail(q),
          posted |-> {<<Head(q), workers[best]>>},
          counts |-> [counts EXCEPT ![best - 1] = @ + 1],
          taskMap |-> tmap \cup {Head(q)},
          inbox |-> [inb EXCEPT ![workers[best]] = Append(@, messages[Head(q)])]]

\* WorkerPool.run(messageType, payload): a new task is queued and the queue processed.
Run(messageType, data) ==
    /\ Len(workers) > 0
    /\ taskIdCounter < MaxTasks
    /\ LET taskId == taskIdCounter + 1
           message == [type |-> messageType, id |-> taskId, data |-> data]
           messages == [taskMessage EXCEPT ![taskId] = message]
           next == ProcessQueue(Append(queue, taskId), activeTaskCounts, taskMap,
                                inbox, messages)
       IN /\ taskIdCounter' = taskId
          /\ taskMessage' = messages
          /\ future' = [future EXCEPT ![taskId] = Pending]
          /\ queue' = next.queue
          /\ activeTaskCounts' = next.counts
          /\ taskMap' = next.taskMap
          /\ inbox' = next.inbox
          /\ assigned' = assigned \cup next.posted
    /\ UNCHANGED <<workers, outbox, delivered, errors, stranded>>
    /\ UNCHANGED <<cacheVars, lshVars, clusterVars, textVars,
                   setupVars, restVars>>

\* The computeSignatures handler of worker-similarity.js: it destructures data.events,
\* so it throws when the message carries no data.
HandlerThrows(message) == message.data = Undefined

\* setupWorker's self.onmessage: the reply posted for a message. The reply carries
\* type and data only; cause is history, the id of the request it answers.
WorkerReply(message) ==
    IF HandlerThrows(message)
    THEN [type |-> "error", id |-> UndefinedId, data |-> "TypeError", cause |-> message.id]
    ELSE [type |-> "result", id |-> UndefinedId, data |-> "results", cause |-> message.id]

\* setupWorker's self.onmessage on the next message of worker w: a known type is
\* handled and answered, an unknown one is only logged.
WorkerOnMessage(w) ==
    /\ Len(inbox[w]) > 0
    /\ LET message == Head(inbox[w]) IN
       /\ inbox' = [inbox EXCEPT ![w] = Tail(@)]
       /\ outbox' = IF message.type \in Handlers
                    THEN [outbox EXCEPT ![w] = Append(@, WorkerReply(message))]
                    ELSE outbox
    /\ UNCHANGED <<workers, queue, activeTaskCounts, taskMap, taskIdCounter,
                   taskMessage, future, delivered, errors, assigned, stranded>>
    /\ UNCHANGED <<cacheVars, lshVars, clusterVars, textVars,
                   setupVars, restVars>>

\* WorkerPool.handleMessage: how the reply settles the promise of a task.
Settle(reply) ==
    IF reply.type = "error"
    THEN [state |-> "rejected", value |-> "Worker error"]
    ELSE [state |-> "resolved", value |-> reply.data]

\* Every id of a task, whether the task is in taskMap or not.
AnyTaskId(id, tmap) == id \in TaskIds

\* WorkerPool.handleMessage: this.taskMap.has(id).
Known(id, tmap) == id \in tmap

\* WorkerPool.handleMessage(workerIndex, event) on the next message worker w posted.
HandleMessage(w) ==
    /\ Len(outbox[w]) > 0
    /\ LET reply == Head(outbox[w])
           id == reply.id
       IN /\ outbox' = [outbox EXCEPT ![w] = Tail(@)]
          /\ delivered' = IF reply.cause = UndefinedId THEN delivered
                          ELSE delivered \cup {reply}
          /\ IF Known(id, taskMap)
             THEN LET counts == [activeTaskCounts EXCEPT ![w] = @ - 1]
                      next == ProcessQueue(queue, counts, taskMap \ {id}, inbox,
                                           taskMessage)
                  IN /\ future' = [future EXCEPT ![id] = Settle(reply)]
                     /\ queue' = next.queue
                     /\ activeTaskCounts' = next.counts
                     /\ taskMap' = next.taskMap
                     /\ inbox' = next.inbox
                     /\ assigned' = assigned \cup next.posted
             ELSE UNCHANGED <<future, queue, activeTaskCounts, taskMap, inbox,
                              assigned>>
    /\ UNCHANGED <<workers, taskIdCounter, taskMessage, errors, stranded>>
    /\ UNCHANGED <<cacheVars, lshVars, clusterVars, textVars,
                   setupVars, restVars>>

\* A handler of the error event that rejects the tasks in flight on the worker.
RejectInFlight(futures, inFlight) ==
    [t \in TaskIds |-> IF t \in inFlight
                       THEN [state |-> "rejected", value |-> "Worker error"]
                       ELSE futures[t]]

\* WorkerPool.handleError(workerIndex, event): the event is logged, and the
\* promises of the tasks in flight on the worker are left as they are.
OnlyLogged(futures, inFlight) == futures

\* The message the error listener of setupWorker posts at an uncaught error of
\* the worker script: it carries no id and answers no request.
ErrorEvent ==
    [type |-> "error", id |-> UndefinedId, data |-> "Worker script error",
     cause |-> UndefinedId]

\* The tasks posted to worker w that are still in taskMap.
InFlight(w) == {t \in taskMap : <<t, w>> \in assigned}

\* Worker w raises an error event: its own listener posts an error message and
\* the pool's worker.onerror runs handleError(w, event).
HandleError(w) ==
    /\ \E k \in 1 .. Len(workers) : workers[k] = w
    /\ errors < MaxErrors
    /\ errors' = errors + 1
    /\ stranded' = stranded \cup InFlight(w)
    /\ future' = OnlyLogged(future, InFlight(w))
    /\ outbox' = [outbox EXCEPT ![w] = Append(@, ErrorEvent)]
    /\ UNCHANGED <<workers, queue, activeTaskCounts, taskMap, taskIdCounter,
                   taskMessage, inbox, delivered, assigned>>
    /\ UNCHANGED <<cacheVars, lshVars, clusterVars, textVars,
                   setupVars, restVars>>

\* The subsequences of the worker indices in increasing order: the workers whose
\* construction succeeded in WorkerPool.initialize.
RECURSIVE Constructed(_)
Constructed(i) ==
    IF i = PoolSize THEN {<< >>}
    ELSE LET rest == Constructed(i + 1)
         IN rest \cup {<<i>> \o r : r \in rest}

\* new WorkerPool(url, size): the state after the constructor and initialize().
PoolInit ==
    /\ workers \in Constructed(0)
    /\ queue = << >>
    /\ activeTaskCounts = [i \in WorkerIndex |-> 0]
    /\ taskMap = {}
    /\ taskIdCounter = 0
    /\ taskMessage = [t \in TaskIds |-> [type |-> "none", id |-> t, data |-> Undefined]]
    /\ future = [t \in TaskIds |-> [state |-> "none", value |-> Undefined]]
    /\ inbox = [w \in WorkerIndex |-> << >>]
    /\ outbox = [w \in WorkerIndex |->
                    IF \E k \in 1 .. Len(workers) : workers[k] = w
                    THEN <<ScriptLoaded>> ELSE << >>]
    /\ delivered = {}
    /\ errors = 0
    /\ assigned = {}
    /\ stranded = {}

PoolNext ==
    \/ \E messageType \in MessageTypes, data \in PayloadData : Run(messageType, data)
    \/ \E w \in WorkerIndex : WorkerOnMessage(w)
    \/ \E w \in WorkerIndex : HandleMessage(w)
    \/ \E w \in WorkerIndex : HandleError(w)

(***************************************************************************)
(* Strings. A string is the sequence of its UTF-16 code units, so that     *)
(* comparison, length, splitting and hashing are those of JavaScript.      *)
(***************************************************************************)
EmptyString == << >>

\* Character classes, as sets of code units.
Digits == 48 .. 57
UpperCase == 65 .. 90
LowerCase == 97 .. 122
\* [a-z0-9], the characters tokenizeForSimilarity keeps.
AlphaNumeric == LowerCase \cup Digits
\* \w, the word characters: letters, digits and "_".
WordChars == UpperCase \cup LowerCase \cup Digits \cup {95}
\* [a-zA-Z0-9._/\-\(\)], the characters of tokenizeEnhanced's original tokens.
OriginalTokenChars == UpperCase \cup LowerCase \cup Digits \cup {46, 95, 47, 45, 40, 41}
\* [a-z0-9._/-], the characters of tokenizeEnhanced's basic tokens.
BasicTokenChars == LowerCase \cup Digits \cup {46, 95, 47, 45}

Range(seq) == {seq[k] : k \in 1 .. Len(seq)}

\* String.prototype.toLowerCase.
ToLowerCase(str) ==
    [k \in 1 .. Len(str) |-> IF str[k] \in UpperCase THEN str[k] + 32 ELSE str[k]]

\* JavaScript's a < b on strings: lexicographic on the code units.
RECURSIVE StringLess(_, _)
StringLess(a, b) ==
    IF Len(b) = 0 THEN FALSE
    ELSE IF Len(a) = 0 THEN TRUE
    ELSE IF Head(a) # Head(b) THEN Head(a) < Head(b)
    ELSE StringLess(Tail(a), Tail(b))

\* String.prototype.includes, also a regex made of one literal word.
Includes(str, word) ==
    \E i \in 0 .. (Len(str) - Len(word)) : \A k \in 1 .. Len(word) : str[i + k] = word[k]

\* Array.prototype.join(separator) on strings.
RECURSIVE Join(_, _)
Join(strings, separator) ==
    IF Len(strings) = 0 THEN EmptyString
    ELSE IF Len(strings) = 1 THEN strings[1]
    ELSE strings[1] \o separator \o Join(Tail(strings), separator)

\* String.prototype.split on the runs of characters outside kept, followed by a
\* filter that drops the empty pieces: the maximal runs of kept characters, in order.
SplitRuns(str, kept) ==
    LET isStart(i) == str[i] \in kept /\ (i = 1 \/ str[i - 1] \notin kept)
        starts == {i \in 1 .. Len(str) : isStart(i)}
        start(k) == CHOOSE i \in starts : Cardinality({j \in starts : j < i}) = k - 1
        end(i) == CHOOSE j \in i .. Len(str) :
                     /\ \A m \in i .. j : str[m] \in kept
                     /\ (j = Len(str) \/ str[j + 1] \notin kept)
    IN [k \in 1 .. Cardinality(starts) |->
            [m \in 1 .. (end(start(k)) - start(k) + 1) |-> str[start(k) + m - 1]]]

\* tokenizeForSimilarity: lower-cased, split on the runs of non-alphanumerics.
TokenizeForSimilarity(str) == SplitRuns(ToLowerCase(str), AlphaNumeric)

\* A rational number is <<numerator, denominator>> with a positive denominator.
RatLess(a, b) == a[1] * b[2] < b[1] * a[2]
RatLessEq(a, b) == a[1] * b[2] <= b[1] * a[2]
RatEq(a, b) == a[1] * b[2] = b[1] * a[2]

Min(a, b) == IF a < b THEN a ELSE b
Max(a, b) == IF a > b THEN a ELSE b

\* levenshteinDistance, one row of the table: curr from prev for the character ch of a.
RECURSIVE LevenshteinRow(_, _, _, _)
LevenshteinRow(prev, curr, ch, b) ==
    LET j == Len(curr) IN
    IF j > Len(b) THEN curr
    ELSE LET cost == IF ch = b[j] THEN 0 ELSE 1
             cell == Min(Min(curr[j] + 1, prev[j + 1] + 1), prev[j] + cost)
         IN LevenshteinRow(prev, Append(curr, cell), ch, b)

\* levenshteinDistance, the rows i, i+1, ... of the table; a row holds the
\* columns 0 .. b.length.
RECURSIVE LevenshteinRows(_, _, _, _)
LevenshteinRows(prev, a, b, i) ==
    IF i > Len(a) THEN prev[Len(b) + 1]
    ELSE LevenshteinRows(LevenshteinRow(prev, <<i>>, a[i], b), a, b, i + 1)

LevenshteinDistance(a, b) ==
    IF a = b THEN 0
    ELSE IF Len(a) = 0 THEN Len(b)
    ELSE IF Len(b) = 0 THEN Len(a)
    ELSE LevenshteinRows([j \in 1 .. (Len(b) + 1) |-> j - 1], a, b, 1)

\* normalizedLevenshtein, a rational.
NormalizedLevenshtein(a, b) ==
    LET maxLen == Max(Len(a), Len(b)) IN
    IF maxLen = 0 THEN <<0, 1>> ELSE <<LevenshteinDistance(a, b), maxLen>>

\* jaccardSimilarity on token lists, a rational.
JaccardSimilarity(tokensA, tokensB) ==
    IF Len(tokensA) = 0 \/ Len(tokensB) = 0 THEN <<0, 1>>
    ELSE LET intersection == Cardinality(Range(tokensA) \cap Range(tokensB))
             union == Cardinality(Range(tokensA)) + Cardinality(Range(tokensB))
                      - intersection
         IN IF union = 0 THEN <<0, 1>> ELSE <<intersection, union>>

(***************************************************************************)
(* Structural patterns (part_002). The texts of the model are made of      *)
(* letters, blanks and "|": of STRUCTURAL_PATTERNS only the literal words  *)
(* of network_error and file_system_error can occur in them, the other     *)
(* patterns need a digit, a quote, a bracket or a ".*" span between words. *)
(***************************************************************************)
\* network_error: "timeout", "econnreset", "enotfound" (the regex ignores case).
NetworkErrorWords ==
    { <<116, 105, 109, 101, 111, 117, 116>>,
      <<101, 99, 111, 110, 110, 114, 101, 115, 101, 116>>,
      <<101, 110, 111, 116, 102, 111, 117, 110, 100>> }
\* file_system_error: "enoent", "eacces", "eperm".
FileSystemErrorWords ==
    { <<101, 110, 111, 101, 110, 116>>, <<101, 97, 99, 99, 101, 115>>,
      <<101, 112, 101, 114, 109>> }

\* detectStructuralPatterns: the names of the patterns matching a text; both are
\* of priority 1 and each is alone in its category.
DetectStructuralPatterns(text) ==
    LET lower == ToLowerCase(text) IN
    (IF \E word \in NetworkErrorWords : Includes(lower, word)
     THEN {"network_error"} ELSE {})
    \cup (IF \E word \in FileSystemErrorWords : Includes(lower, word)
          THEN {"file_system_error"} ELSE {})

\* calculateStructuralSimilarity, in hundredths: 0.9 + 0.05 per shared priority-1
\* pattern; else 0.8 for equal structural signatures (the text itself, as it holds
\* no digit, quote or URL to replace); else 0, no "{...}" element being there to share.
CalculateStructuralSimilarity(textA, textB) ==
    LET common == DetectStructuralPatterns(textA) \cap DetectStructuralPatterns(textB)
    IN IF common # {} THEN 90 + 5 * Cardinality(common)
       ELSE IF textA = textB THEN 80
       ELSE 0

\* shouldClusterByStructure: a similarity of at least 0.9, or of at least 0.8 with a
\* shared priority-1 pattern.
ShouldClusterByStructure(textA, textB) ==
    LET structuralSim == CalculateStructuralSimilarity(textA, textB) IN
    IF structuralSim >= 90 THEN TRUE
    ELSE IF structuralSim >= 80
    THEN DetectStructuralPatterns(textA) \cap DetectStructuralPatterns(textB) # {}
    ELSE FALSE

(***************************************************************************)
(* Enhanced tokenizer (src/log-pipeline/enhanced-tokenizer.js).            *)
(***************************************************************************)
\* STOP_WORDS: its first entries, "the" ... "by", and "no", "not"; the texts of
\* the model hold no other stop word.
StopWords ==
    { <<116, 104, 101>>, <<97>>, <<97, 110>>, <<97, 110, 100>>, <<111, 114>>,
      <<98, 117, 116>>, <<105, 110>>, <<111, 110>>, <<97, 116>>, <<116, 111>>,
      <<102, 111, 114>>, <<111, 102>>, <<119, 105, 116, 104>>, <<98, 121>>, <<110, 111>>,
      <<110, 111, 116>> }

\* TECHNICAL_PATTERNS: the HTTP methods, the error keywords and the database
\* keywords, whole tokens whatever their case.
TechnicalWords ==
    { <<103, 101, 116>>, <<112, 111, 115, 116>>, <<112, 117, 116>>,
      <<100, 101, 108, 101, 116, 101>>, <<112, 97, 116, 99, 104>>, <<104, 101, 97, 100>>,
      <<111, 112, 116, 105, 111, 110, 115>>, <<99, 111, 110, 110, 101, 99, 116>>,
      <<116, 114, 97, 99, 101>>, <<101, 114, 114, 111, 114>>,
      <<101, 120, 99, 101, 112, 116, 105, 111, 110>>, <<102, 97, 105, 108, 101, 100>>,
      <<102, 97, 105, 108, 117, 114, 101>>, <<116, 105, 109, 101, 111, 117, 116>>,
      <<97, 98, 111, 114, 116>>, <<99, 97, 110, 99, 101, 108>>,
      <<114, 101, 106, 101, 99, 116>>, <<115, 101, 108, 101, 99, 116>>,
      <<105, 110, 115, 101, 114, 116>>, <<117, 112, 100, 97, 116, 101>>,
      <<99, 114, 101, 97, 116, 101>>, <<100, 114, 111, 112>>, <<97, 108, 116, 101, 114>>,
      <<116, 97, 98, 108, 101>>, <<105, 110, 100, 101, 120>>,
      <<119, 104, 101, 114, 101>>, <<106, 111, 105, 110>>, <<102, 114, 111, 109>>,
      <<105, 110, 116, 111>> }

\* /^\d{3}$/, the HTTP status codes.
IsStatusCode(token) == Len(token) = 3 /\ \A k \in 1 .. 3 : token[k] \in Digits

\* isTechnicalToken. The UUID, file extension, function call and API endpoint
\* patterns need "-", ".", "(" or "/", which no text of the model holds.
IsTechnicalToken(token) ==
    ToLowerCase(token) \in TechnicalWords \/ IsStatusCode(token)

\* generateNGrams(tokens, n, n): the runs of n tokens joined by a blank.
NGrams(tokens, n) ==
    [i \in 1 .. Max(0, Len(tokens) - n + 1) |->
        Join([k \in 1 .. n |-> tokens[i + k - 1]], <<32>>)]

\* tokenizeEnhanced: the technical tokens twice, the regular tokens, their 2-grams
\* and their 3-grams.
TokenizeEnhanced(str) ==
    LET originalTokens == SplitRuns(str, OriginalTokenChars)
        technicalTokens ==
            [k \in 1 .. Len(SelectSeq(originalTokens, IsTechnicalToken)) |->
                ToLowerCase(SelectSeq(originalTokens, IsTechnicalToken)[k])]
        isBasic(token) == Len(token) > 1 /\ token \notin StopWords
        basicTokens == SelectSeq(SplitRuns(ToLowerCase(str), BasicTokenChars), isBasic)
        isRegular(token) == token \notin Range(technicalTokens)
        regularTokens == SelectSeq(basicTokens, isRegular)
    IN technicalTokens \o technicalTokens \o regularTokens
       \o NGrams(regularTokens, 2) \o NGrams(regularTokens, 3)

\* Weights that are all 0.
NoWeight(tokens, token) == 0

\* calculateTokenWeights, the weight of a token times 4 * tokens.length: the sum
\* over its positions i (from 0) of 3 if technical, 2 if a status code, 1.5 if an
\* n-gram, times the position weight 1 - (i / length) * 0.5.
TokenWeight(tokens, token) ==
    LET n == Len(tokens)
        at(k) == (IF IsTechnicalToken(token) THEN 3 ELSE 1)
                 * (IF IsStatusCode(token) THEN 2 ELSE 1)
                 * (IF 32 \in Range(token) THEN 3 ELSE 2)
                 * (2 * n - (k - 1))
        positions == {k \in 1 .. n : tokens[k] = token}
        sum[S \in SUBSET positions] ==
            IF S = {} THEN 0
            ELSE LET k == CHOOSE x \in S : TRUE IN at(k) + sum[S \ {k}]
    IN sum[positions]

\* weightedJaccardSimilarity, a rational: the sum of the smaller weights over the
\* sum of the larger weights, the weights of A and B brought to one denominator.
WeightedJaccardSimilarity(tokensA, tokensB) ==
    IF Len(tokensA) = 0 \/ Len(tokensB) = 0 THEN <<0, 1>>
    ELSE LET allTokens == Range(tokensA) \cup Range(tokensB)
             weightA(token) == TokenWeight(tokensA, token) * Len(tokensB)
             weightB(token) == TokenWeight(tokensB, token) * Len(tokensA)
             total[S \in SUBSET allTokens] ==
                 IF S = {} THEN <<0, 0>>
                 ELSE LET token == CHOOSE x \in S : TRUE
                          rest == total[S \ {token}]
                      IN <<rest[1] + Min(weightA(token), weightB(token)),
                           rest[2] + Max(weightA(token), weightB(token))>>
             sums == total[allTokens]
         IN IF sums[2] = 0 THEN <<0, 1>> ELSE sums

(***************************************************************************)
(* The three caches: TokenizationCache (src/utils/tokenization-cache.js),  *)
(* PatternDetectionCache (part_010) and the TF-IDF cache (part_013).       *)
(***************************************************************************)
\* Bound of the cache model: the largest maxSize a cache is built with.
CacheMaxSize == 2

\* Map.has, Map.get, Map.delete and Map.set on the entries in insertion order.
MapHas(map, key) == \E k \in 1 .. Len(map) : map[k].key = key
MapGet(map, key) == map[CHOOSE k \in 1 .. Len(map) : map[k].key = key].value
MapDelete(map, key) == SelectSeq(map, LAMBDA entry : entry.key # key)
MapSet(map, key, value) ==
    IF MapHas(map, key)
    THEN [k \in 1 .. Len(map) |->
            IF map[k].key = key THEN [key |-> key, value |-> value] ELSE map[k]]
    ELSE Append(map, [key |-> key, value |-> value])

\* indexOf followed by splice(index, 1): the first occurrence of key is removed.
RemoveFirst(seq, key) ==
    IF \E k \in 1 .. Len(seq) : seq[k] = key
    THEN LET i == CHOOSE k \in 1 .. Len(seq) :
                    seq[k] = key /\ \A j \in 1 .. (k - 1) : seq[j] # key
         IN [k \in 1 .. (Len(seq) - 1) |-> IF k < i THEN seq[k] ELSE seq[k + 1]]
    ELSE seq

\* accessOrder moved on a hit: the key goes to the end.
Touch(order, key) == Append(RemoveFirst(order, key), key)

NoKey == << >>
NoLookup == [op |-> "none", args |-> << >>, result |-> << >>, evicted |-> NoKey,
             lru |-> NoKey]

\* A fullness test that lets the cache grow one entry past maxSize.
FullOnlyAboveMaxSize(size, maxSize) == size > maxSize

\* TokenizationCache.getTokens: whether the cache is full before an insertion.
TokenizationCacheFull(size, maxSize) == size >= maxSize

\* TokenizationCache.getTokens(text) on a cache (map, order, maxSize): the tokens
\* returned and the cache afterwards. tokens is this.tokenizer(text), the value
\* computed on a miss.
TokenizationLookup(tokens, map, order, maxSize, text) ==
    IF text = EmptyString
    THEN [result |-> << >>, map |-> map, order |-> order, evicted |-> NoKey,
          hit |-> FALSE]
    ELSE IF MapHas(map, text)
    THEN [result |-> MapGet(map, text), map |-> map, order |-> Touch(order, text),
          evicted |-> NoKey, hit |-> TRUE]
    ELSE LET full == TokenizationCacheFull(Len(map), maxSize)
             oldest == IF full /\ Len(order) > 0 THEN Head(order) ELSE NoKey
             kept == IF full THEN MapDelete(map, oldest) ELSE map
             shifted == IF full /\ Len(order) > 0 THEN Tail(order) ELSE order
         IN [result |-> tokens, map |-> MapSet(kept, text, tokens),
             order |-> Append(shifted, text), evicted |-> oldest, hit |-> FALSE]

\* The texts the tokenization cache is asked about: "", "EPERM",
\* "timeout", "EPERM|timeout" and "timeout|timeout".
CacheTexts ==
    { EmptyString, <<69, 80, 69, 82, 77>>, <<116, 105, 109, 101, 111, 117, 116>>,
      <<69, 80, 69, 82, 77, 124, 116, 105, 109, 101, 111, 117, 116>>,
      <<116, 105, 109, 101, 111, 117, 116, 124, 116, 105, 109, 101, 111, 117, 116>> }

\* TokenizationCache.getTokens(text), the cache wrapping tokenizeForSimilarity.
GetTokens(text) ==
    /\ cacheKind = "tokenization"
    /\ LET got == TokenizationLookup(TokenizeForSimilarity(text), cacheMap, accessOrder,
                                     cacheMax, text)
       IN /\ cacheMap' = got.map
          /\ accessOrder' = got.order
          /\ recency' = IF got.hit THEN Touch(recency, text)
                        ELSE IF got.map = cacheMap THEN recency
                        ELSE Append(RemoveFirst(recency, got.evicted), text)
          /\ lookup' = [op |-> "getTokens", args |-> text, result |-> got.result,
                        evicted |-> got.evicted,
                        lru |-> IF got.evicted # NoKey THEN Head(recency) ELSE NoKey]
    /\ UNCHANGED <<cacheKind, cacheMax>>
    /\ UNCHANGED <<poolVars, lshVars, clusterVars, textVars,
                   setupVars, restVars>>

\* PatternDetectionCache.shouldCluster: the cache key of a pair of keys, the
\* smaller first and "|" between them.
PatternCacheKey(key1, key2) ==
    IF StringLess(key1, key2) THEN key1 \o <<124>> \o key2
    ELSE key2 \o <<124>> \o key1

\* PatternDetectionCache.shouldCluster: whether the cache is full before an insertion.
PatternCacheFull(size, maxSize) == size >= maxSize

\* PatternDetectionCache.shouldCluster(key1, key2) on a cache (map, maxSize)
\* wrapping shouldClusterByStructure: the result and the map afterwards.
PatternLookup(map, maxSize, key1, key2) ==
    IF key1 = EmptyString \/ key2 = EmptyString
    THEN [result |-> FALSE, map |-> map, evicted |-> NoKey, hit |-> FALSE]
    ELSE LET cacheKey == PatternCacheKey(key1, key2) IN
         IF MapHas(map, cacheKey)
         THEN [result |-> MapGet(map, cacheKey), map |-> map, evicted |-> NoKey,
               hit |-> TRUE]
         ELSE LET result == ShouldClusterByStructure(key1, key2)
                  full == PatternCacheFull(Len(map), maxSize) /\ Len(map) > 0
                  firstKey == IF full THEN map[1].key ELSE NoKey
                  kept == IF full THEN MapDelete(map, firstKey) ELSE map
              IN [result |-> result, map |-> MapSet(kept, cacheKey, result),
                  evicted |-> firstKey, hit |-> FALSE]

\* The pairs of keys the pattern cache is asked about.
PatternPairs ==
    { <<<<69, 80, 69, 82, 77>>, <<116, 105, 109, 101, 111, 117, 116, 124, 116, 105, 109, 101, 111, 117, 116>>>>,
      <<<<69, 80, 69, 82, 77, 124, 116, 105, 109, 101, 111, 117, 116>>, <<116, 105, 109, 101, 111, 117, 116>>>>,
      <<<<69, 80, 69, 82, 77>>, <<116, 105, 109, 101, 111, 117, 116>>>>,
      <<<<116, 105, 109, 101, 111, 117, 116>>, <<69, 80, 69, 82, 77>>>>,
      <<<<69, 80, 69, 82, 77>>, <<69, 80, 69, 82, 77>>>>,
      <<<<116, 105, 109, 101, 111, 117, 116>>, <<116, 105, 109, 101, 111, 117, 116>>>>,
      <<EmptyString, <<69, 80, 69, 82, 77>>>> }

\* PatternDetectionCache.shouldCluster(key1, key2).
ShouldCluster(key1, key2) ==
    /\ cacheKind = "pattern"
    /\ LET got == PatternLookup(cacheMap, cacheMax, key1, key2)
           cacheKey == PatternCacheKey(key1, key2)
       IN /\ cacheMap' = got.map
          /\ recency' = IF got.hit THEN Touch(recency, cacheKey)
                        ELSE IF got.map = cacheMap THEN recency
                        ELSE Append(RemoveFirst(recency, got.evicted), cacheKey)
          /\ lookup' = [op |-> "shouldCluster", args |-> <<key1, key2>>,
                        result |-> got.result, evicted |-> got.evicted,
                        lru |-> IF got.evicted # NoKey THEN Head(recency) ELSE NoKey]
    /\ UNCHANGED <<cacheKind, cacheMax, accessOrder>>
    /\ UNCHANGED <<poolVars, lshVars, clusterVars, textVars,
                   setupVars, restVars>>

\* hashTurns hashes at most this many characters of each turn text.
HashedChars == 50
\* The two halves of a 32-bit integer are kept apart, each below 2^16.
HalfWord == 65536

\* hashTurns, one character: hash = ((hash << 5) - hash) + code, cut to 32 bits.
\* The hash is <<high half, low half>>.
HashStep(hash, code) ==
    LET low == 31 * hash[2] + code
    IN <<(31 * hash[1] + (low \div HalfWord)) % HalfWord, low % HalfWord>>

\* hashTurns, one turn: the characters i, i+1, ... below Math.min(50, text.length).
RECURSIVE HashText(_, _, _)
HashText(hash, text, i) ==
    IF i > Len(text) \/ i > HashedChars THEN hash
    ELSE HashText(HashStep(hash, text[i]), text, i + 1)

RECURSIVE HashTurnTexts(_, _, _)
HashTurnTexts(hash, turns, t) ==
    IF t > Len(turns) THEN hash
    ELSE HashTurnTexts(HashText(hash, turns[t], 1), turns, t + 1)

\* hashTurns(turns): tfidf_<hash in base 36>_<number of turns>, as the hash and
\* the number of turns.
HashTurns(turns) ==
    LET hash == HashTurnTexts(<<0, 0>>, turns, 1)
    IN <<hash[1], hash[2], Len(turns)>>

\* isStopWord (part_003): its first entries, "the" ... "by"; the turn texts of the
\* model hold no other stop word.
IsStopWord(word) ==
    ToLowerCase(word) \in
        { <<116, 104, 101>>, <<97>>, <<97, 110>>, <<97, 110, 100>>, <<111, 114>>,
          <<98, 117, 116>>, <<105, 110>>, <<111, 110>>, <<97, 116>>, <<116, 111>>,
          <<102, 111, 114>>, <<111, 102>>, <<119, 105, 116, 104>>, <<98, 121>> }

\* calculateTFIDF: the terms of a turn, its words longer than two characters that
\* are no stop words.
Terms(text) ==
    SelectSeq(SplitRuns(ToLowerCase(text), WordChars),
              LAMBDA w : Len(w) > 2 /\ ~IsStopWord(w))

\* calculateTFIDF(turns): per turn its index and its number of terms. The score,
\* a float computed from the same terms, is left out.
CalculateTFIDF(turns) ==
    [idx \in 1 .. Len(turns) |-> [turnIdx |-> idx - 1, termCount |-> Len(Terms(turns[idx]))]]

\* The turn lists the TF-IDF cache is asked about: none, ["aaa"],
\* ["bbb"], ["ab bbb"], ["aaa", "bbb"] and ["aaab", "bb"].
CacheTurns ==
    { << >>, <<<<97, 97, 97>>>>, <<<<98, 98, 98>>>>, <<<<97, 98, 32, 98, 98, 98>>>>,
      <<<<97, 97, 97>>, <<98, 98, 98>>>>, <<<<97, 97, 97, 98>>, <<98, 98>>>> }

\* createTFIDFCache.get: whether the cache is over its limit after an insertion.
TfidfCacheOver(size, maxSize) == size > maxSize

\* createTFIDFCache.get(calculateFn, turns) with calculateFn = calculateTFIDF.
TfidfGet(turns) ==
    /\ cacheKind = "tfidf"
    /\ IF Len(turns) = 0
       THEN /\ lookup' = [NoLookup EXCEPT !.op = "tfidf", !.args = turns]
            /\ UNCHANGED <<cacheMap, accessOrder, recency>>
       ELSE LET key == HashTurns(turns) IN
            IF MapHas(cacheMap, key)
            THEN /\ accessOrder' = Touch(accessOrder, key)
                 /\ recency' = Touch(recency, key)
                 /\ lookup' = [NoLookup EXCEPT !.op = "tfidf", !.args = turns,
                                               !.result = MapGet(cacheMap, key)]
                 /\ UNCHANGED cacheMap
            ELSE LET result == CalculateTFIDF(turns)
                     stored == MapSet(cacheMap, key, result)
                     order == Append(accessOrder, key)
                     over == TfidfCacheOver(Len(stored), cacheMax)
                     oldestKey == IF over THEN Head(order) ELSE NoKey
                 IN /\ cacheMap' = IF over THEN MapDelete(stored, oldestKey) ELSE stored
                    /\ accessOrder' = IF over THEN Tail(order) ELSE order
                    /\ recency' = RemoveFirst(Append(recency, key), oldestKey)
                    /\ lookup' = [op |-> "tfidf", args |-> turns, result |-> result,
                                  evicted |-> oldestKey,
                                  lru |-> IF over THEN Head(recency) ELSE NoKey]
    /\ UNCHANGED <<cacheKind, cacheMax>>
    /\ UNCHANGED <<poolVars, lshVars, clusterVars, textVars,
                   setupVars, restVars>>

\* clear() of the cache.
ClearCache ==
    /\ cacheMap' = << >>
    /\ accessOrder' = << >>
    /\ recency' = << >>
    /\ lookup' = NoLookup
    /\ UNCHANGED <<cacheKind, cacheMax>>
    /\ UNCHANGED <<poolVars, lshVars, clusterVars, textVars,
                   setupVars, restVars>>

\* A cache built with a maxSize of at least 1, empty.
CacheInit ==
    /\ cacheKind \in {"tokenization", "pattern", "tfidf"}
    /\ cacheMax \in 1 .. CacheMaxSize
    /\ cacheMap = << >>
    /\ accessOrder = << >>
    /\ recency = << >>
    /\ lookup = NoLookup

CacheNext ==
    \/ \E text \in CacheTexts : GetTokens(text)
    \/ \E pair \in PatternPairs : ShouldCluster(pair[1], pair[2])
    \/ \E turns \in CacheTurns : TfidfGet(turns)
    \/ ClearCache

(***************************************************************************)
(* MinHash and LSHIndex (src/log-pipeline/similarity-utils.js). A hash     *)
(* value is a 32-bit integer kept as <<high half, low half>>.              *)
(***************************************************************************)
\* Bounds of the LSH model: new LSHIndex(NumBands, BandSize), fed by
\* new MinHash(NumHashes); the program builds LSHIndex(20, 5) and MinHash(100).
NumBands == 2
BandSize == 2
NumHashes == NumBands * BandSize

\* Half of HalfWord, 2^15: a high half below it keeps the integer below 2^31.
SignBit == 32768

\* Infinity, the value computeSignature starts from: above every 32-bit integer.
Infinity == <<HalfWord, 0>>

\* a < b on hash values.
HashLess(a, b) == a[1] < b[1] \/ (a[1] = b[1] /\ a[2] < b[2])

\* MinHash constructor: hash function i (from 0) with seed 0; its modulus p is
\* 4294967291, that is 2^32 - 5.
HashFunction(i) == [a |-> i * 2 + 1, b |-> i * 2 + 2]

\* MinHash._hashToken, the string hash: per character
\* hash = ((hash << 5) - hash + code) & 0x7fffffff.
RECURSIVE StringHash(_, _, _)
StringHash(hash, token, i) ==
    IF i > Len(token) THEN hash
    ELSE LET step == HashStep(hash, token[i])
         IN StringHash(<<step[1] % SignBit, step[2]>>, token, i + 1)

\* MinHash._hashToken, the linear transformation ((a * hash + b) % p) >>> 0.
\* a * hash + b is q * 2^32 + r, which is q * p + (5 * q + r), and 5 * q + r is
\* below 2 * p.
LinearHash(hashFunc, hash) ==
    LET low == hashFunc.a * hash[2] + hashFunc.b
        high == hashFunc.a * hash[1] + (low \div HalfWord)
        q == high \div HalfWord
        sumLow == (low % HalfWord) + 5 * q
        sumHigh == (high % HalfWord) + (sumLow \div HalfWord)
        sum == <<sumHigh, sumLow % HalfWord>>
        reducedLow == sum[2] + 5
    IN IF HashLess(sum, <<HalfWord - 1, HalfWord - 5>>) THEN sum
       ELSE <<(sum[1] + (reducedLow \div HalfWord)) % HalfWord, reducedLow % HalfWord>>

HashToken(token, hashFunc) == LinearHash(hashFunc, StringHash(<<0, 0>>, token, 1))

\* MinHash.computeSignature(tokens): per hash function the least hash of a token.
ComputeSignature(tokens) ==
    [i \in 1 .. NumHashes |->
        LET hashes == {HashToken(tokens[k], HashFunction(i - 1)) : k \in 1 .. Len(tokens)}
        IN IF hashes = {} THEN Infinity
           ELSE CHOOSE h \in hashes : \A other \in hashes : ~HashLess(other, h)]

\* Array.prototype.slice(start, end) with start from 0.
Slice(array, start, end) ==
    [k \in 1 .. Max(0, Min(end, Len(array)) - start) |-> array[start + k]]

\* LSHIndex._hashBand, one value: hash = ((hash << 5) - hash + value) & 0x7fffffff;
\* with an infinite value the sum is infinite and the bit operation gives 0.
HashBandStep(hash, value) ==
    IF value = Infinity THEN <<0, 0>>
    ELSE LET low == 31 * hash[2] + value[2]
             high == 31 * hash[1] + value[1] + (low \div HalfWord)
         IN <<high % SignBit, low % HalfWord>>

\* LSHIndex._hashBand(bandSignature, bandIndex) with hashSeed 0.
RECURSIVE HashBandFrom(_, _, _)
HashBandFrom(hash, bandSignature, i) ==
    IF i > Len(bandSignature) THEN hash
    ELSE HashBandFrom(HashBandStep(hash, bandSignature[i]), bandSignature, i + 1)

HashBand(bandSignature, bandIndex) == HashBandFrom(<<0, bandIndex>>, bandSignature, 1)

Bands == 0 .. (NumBands - 1)

\* new LSHIndex(NumBands, BandSize): a Map per band, and the items.
EmptyIndex == [bands |-> [band \in Bands |-> << >>], items |-> << >>]

\* An index that takes a signature of any length.
AnyLengthFits(signature) == TRUE

\* LSHIndex.add: whether the signature has the length the index expects.
SignatureFits(signature) == Len(signature) = NumBands * BandSize

\* LSHIndex.add(itemId, signature) on a signature of the expected length: the
\* signature is stored and the id appended to one bucket per band.
LshAdd(index, itemId, signature) ==
    [items |-> MapSet(index.items, itemId, signature),
     bands |-> [band \in Bands |->
        LET start == band * BandSize
            bandHash == HashBand(Slice(signature, start, start + BandSize), band)
            bucket == IF MapHas(index.bands[band], bandHash)
                      THEN MapGet(index.bands[band], bandHash) ELSE << >>
        IN MapSet(index.bands[band], bandHash, Append(bucket, itemId))]]

\* LSHIndex._estimateSimilarity(sigA, sigB): the positions of sigA at which sigB
\* holds the same value, over the length of sigA.
EstimateSimilarity(sigA, sigB) ==
    <<Cardinality({i \in 1 .. Len(sigA) : i <= Len(sigB) /\ sigA[i] = sigB[i]}),
      Len(sigA)>>

\* A query filter that lets every candidate through.
KeepsEveryCandidate(similarity, threshold) == TRUE

\* LSHIndex.query: similarity >= threshold (false for 0 / 0, which is NaN).
MeetsThreshold(similarity, threshold) ==
    similarity[2] > 0 /\ RatLessEq(threshold, similarity)

\* The Set built by adding the elements of a sequence: the first occurrences.
Distinct(seq) ==
    LET firsts == {k \in 1 .. Len(seq) : \A j \in 1 .. (k - 1) : seq[j] # seq[k]}
        nth(p) == CHOOSE k \in firsts : Cardinality({j \in firsts : j < k}) = p - 1
    IN [p \in 1 .. Cardinality(firsts) |-> seq[nth(p)]]

\* Array.prototype.sort by descending score; scores[k] is the integer score of
\* array[k]; the sort is stable.
SortDescending(array, scores) ==
    LET before(j, k) == \/ scores[j] > scores[k]
                        \/ (scores[j] = scores[k] /\ j < k)
        rank(k) == 1 + Cardinality({j \in 1 .. Len(array) : before(j, k)})
    IN [p \in 1 .. Len(array) |-> array[CHOOSE k \in 1 .. Len(array) : rank(k) = p]]

\* LSHIndex.query, the candidates: the ids in the bucket of each band's slice, as
\* a Set in insertion order.
RECURSIVE Candidates(_, _, _)
Candidates(index, signature, band) ==
    IF band = NumBands THEN << >>
    ELSE LET start == band * BandSize
             bandHash == HashBand(Slice(signature, start, start + BandSize), band)
             bucket == IF MapHas(index.bands[band], bandHash)
                       THEN MapGet(index.bands[band], bandHash) ELSE << >>
         IN bucket \o Candidates(index, signature, band + 1)

\* LSHIndex.query(signature, threshold): the candidates whose stored signature
\* is similar enough, the most similar first.
LshQuery(index, signature, threshold) ==
    LET candidates == Distinct(Candidates(index, signature, 0))
        scored == [k \in 1 .. Len(candidates) |->
                      [itemId |-> candidates[k],
                       similarity |-> EstimateSimilarity(signature,
                                          MapGet(index.items, candidates[k]))]]
        results == SelectSeq(scored,
                      LAMBDA result : MeetsThreshold(result.similarity, threshold))
    \* the similarities share their denominator, the length of signature
    IN SortDescending(results, [k \in 1 .. Len(results) |-> results[k].similarity[1]])

\* Bound of the LSH model: the add calls an index receives.
MaxAdds == 3

\* The item ids of the LSH model.
ItemIds == {"a", "b"}

\* Signatures of the LSH model over two hash values: one value throughout, the
\* other value throughout, the first band of one and the rest of the other, a
\* signature that is too short and one that is too long.
LshSignatures ==
    LET one == <<0, 1>>
        other == <<0, 2>>
    IN { [i \in 1 .. NumHashes |-> one],
         [i \in 1 .. NumHashes |-> other],
         [i \in 1 .. NumHashes |-> IF i <= BandSize THEN one ELSE other],
         <<one>>,
         [i \in 1 .. NumHashes + 1 |-> one] }

\* The thresholds queries are made with: 0.5, the default, and 0.75.
QueryThresholds == {<<1, 2>>, <<3, 4>>}

NoQuery == [op |-> "none", signature |-> << >>, threshold |-> <<0, 1>>,
            results |-> << >>, threw |-> FALSE]

\* The add calls index has accepted: each appended one id to a bucket of band 0.
RECURSIVE TotalLength(_)
TotalLength(map) ==
    IF Len(map) = 0 THEN 0 ELSE Len(Head(map).value) + TotalLength(Tail(map))

\* LSHIndex.add(itemId, signature): throws on a signature of another length.
Add(itemId, signature) ==
    /\ TotalLength(lshIndex.bands[0]) < MaxAdds
    /\ IF SignatureFits(signature)
       THEN /\ lshIndex' = LshAdd(lshIndex, itemId, signature)
            /\ lshQuery' = [NoQuery EXCEPT !.op = "add", !.signature = signature]
       ELSE /\ lshIndex' = lshIndex
            /\ lshQuery' = [NoQuery EXCEPT !.op = "add", !.signature = signature,
                                            !.threw = TRUE]
    /\ UNCHANGED <<poolVars, cacheVars, clusterVars, textVars,
                   setupVars, restVars>>

\* LSHIndex.query(signature, threshold).
Query(signature, threshold) ==
    /\ lshQuery' = [op |-> "query", signature |-> signature, threshold |-> threshold,
                    results |-> LshQuery(lshIndex, signature, threshold),
                    threw |-> FALSE]
    /\ UNCHANGED lshIndex
    /\ UNCHANGED <<poolVars, cacheVars, clusterVars, textVars,
                   setupVars, restVars>>

LshInit ==
    /\ lshIndex = EmptyIndex
    /\ lshQuery = NoQuery

LshNext ==
    \/ \E itemId \in ItemIds, signature \in LshSignatures : Add(itemId, signature)
    \/ \E signature \in LshSignatures, threshold \in QueryThresholds :
          Query(signature, threshold)

(***************************************************************************)
(* Clustering: buildClustersNoEmbeddings (part_008), the flat strategy     *)
(* (part_004, part_007, src/log-pipeline/core/clustering-strategy.js) and  *)
(* the hierarchical strategy (src/log-pipeline/hierarchical-clusterer.js). *)
(* An event is named by its position in the event list.                    *)
(***************************************************************************)
\* Bound of the clustering model: the longest event list.
MaxEvents == 3

\* The signatures of the events: "EPERM ab", "EPERM cd" and "xy cd".
Signatures ==
    { <<69, 80, 69, 82, 77, 32, 97, 98>>,
      <<69, 80, 69, 82, 77, 32, 99, 100>>,
      <<120, 121, 32, 99, 100>> }

\* The primary categories of the events.
Categories == {"Error", "Network"}

EventKinds == [signature : Signatures, primaryCategory : Categories]

\* The event lists of 1 to n events.
RECURSIVE EventLists(_)
EventLists(n) ==
    IF n = 0 THEN {}
    ELSE {<<kind>> : kind \in EventKinds}
         \cup EventLists(n - 1)
         \cup {Append(list, kind) : list \in EventLists(n - 1), kind \in EventKinds}

RatMul(a, b) == <<a[1] * b[1], a[2] * b[2]>>

\* CLUSTERING_CONFIG.textBased.adaptive as shipped (part_002).
DefaultAdaptive ==
    [baseDistanceThreshold |-> <<1, 100>>, baseDistanceStrict |-> <<1, 1000>>,
     baseJaccardThreshold |-> <<99, 100>>,
     smallDatasetThreshold |-> 50, mediumDatasetThreshold |-> 200,
     smallDatasetMultiplier |-> <<12, 10>>, largeDatasetMultiplier |-> <<4, 10>>,
     shortLogThreshold |-> 20,
     shortLogMultiplier |-> <<13, 10>>, longLogMultiplier |-> <<7, 10>>]

\* The same after setConfig made the base thresholds 0.5, 0.1 and 0.1.
PermissiveAdaptive ==
    [DefaultAdaptive EXCEPT !.baseDistanceThreshold = <<1, 2>>,
                            !.baseDistanceStrict = <<1, 10>>,
                            !.baseJaccardThreshold = <<1, 10>>]

\* The reduce of calculateAdaptiveThresholds over the events lo .. hi: the sum
\* of the lengths of their signatures, the halves of the range summed apart.
RECURSIVE SignatureLengthFrom(_, _, _)
SignatureLengthFrom(list, lo, hi) ==
    IF lo > hi THEN 0
    ELSE IF lo = hi THEN Len(list[lo].signature)
    ELSE SignatureLengthFrom(list, lo, (lo + hi) \div 2)
         + SignatureLengthFrom(list, ((lo + hi) \div 2) + 1, hi)

TotalSignatureLength(list) == SignatureLengthFrom(list, 1, Len(list))

\* calculateAdaptiveThresholds(events) under the adaptive configuration config.
CalculateAdaptiveThresholds(list, config) ==
    LET totalEvents == Len(list)
        bySize == IF totalEvents <= config.smallDatasetThreshold
                  THEN config.smallDatasetMultiplier
                  ELSE IF totalEvents >= config.mediumDatasetThreshold
                  THEN config.largeDatasetMultiplier
                  ELSE <<1, 1>>
        \* avgLength <= shortLogThreshold
        short == TotalSignatureLength(list) <= config.shortLogThreshold * totalEvents
        multiplier == RatMul(bySize, IF short THEN config.shortLogMultiplier
                                     ELSE config.longLogMultiplier)
    IN [distanceThreshold |-> RatMul(config.baseDistanceThreshold, multiplier),
        distanceStrict |-> RatMul(config.baseDistanceStrict, multiplier),
        jaccardThreshold |-> RatMul(config.baseJaccardThreshold, multiplier)]

\* TextBasedStrategy.initialize: the sizes of the two caches it creates.
TokenizationCacheSize == 5000
PatternCacheSize == 1000

\* TextBasedStrategy.findSimilarClusterKey: the keys sampled and the keys compared.
ClusterSampleSize == 500
MaxComparisons == 100

\* TextBasedStrategy.initialize(config): enhanced tokenization unless
\* config.enhancedTokenization is false, and two new caches.
Initialize(config) ==
    [useEnhancedTokenization |->
         ~("enhancedTokenization" \in DOMAIN config /\ config.enhancedTokenization = FALSE),
     tokenizationCache |-> [map |-> << >>, order |-> << >>],
     patternCache |-> << >>]

\* getEventKey and getEventCategory (clustering-strategy.js).
GetEventKey(event) == event.signature
GetEventCategory(event) ==
    IF event.primaryCategory = Undefined THEN "Other" ELSE event.primaryCategory

\* getLastNKeys(map, maxSample): the last maxSample keys of a Map, in its order.
GetLastNKeys(map, maxSample) ==
    LET startIndex == Max(0, Len(map) - maxSample)
    IN [k \in 1 .. (Len(map) - startIndex) |-> map[startIndex + k].key]

\* this.tokenizationCache.getTokens(text) of the strategy st.
StrategyTokens(st, text) ==
    IF st.useEnhancedTokenization
    THEN TokenizationLookup(TokenizeEnhanced(text), st.tokenizationCache.map,
                            st.tokenizationCache.order, TokenizationCacheSize, text)
    ELSE TokenizationLookup(TokenizeForSimilarity(text), st.tokenizationCache.map,
                            st.tokenizationCache.order, TokenizationCacheSize, text)

\* this.jaccardFunc of the strategy st.
StrategyJaccard(st, tokensA, tokensB) ==
    IF st.useEnhancedTokenization THEN WeightedJaccardSimilarity(tokensA, tokensB)
    ELSE JaccardSimilarity(tokensA, tokensB)

WithTokens(st, got) ==
    [st EXCEPT !.tokenizationCache = [map |-> got.map, order |-> got.order]]

\* A loop that compares the clusters of every category.
AnyCategory(cluster, primaryCategory) == FALSE

\* findSimilarClusterKey: a cluster of another primary category is passed over;
\* the category of the event, never empty, is always given.
CategoryDiffers(cluster, primaryCategory) == cluster.primaryCategory # primaryCategory

\* A loop that takes a key by its edit distance alone.
StrictOnly(distanceRatio, jaccard, thresholds) ==
    RatLessEq(distanceRatio, thresholds.distanceStrict)

\* findSimilarClusterKey: a key within the loose distance is a candidate when
\* its distance is within the strict one or its Jaccard similarity is high enough.
Accepted(distanceRatio, jaccard, thresholds) ==
    \/ RatLessEq(distanceRatio, thresholds.distanceStrict)
    \/ RatLessEq(thresholds.jaccardThreshold, jaccard)

\* findSimilarClusterKey, the body of the loop for one sampled key. scan holds
\* the strategy st with its caches, the immediate match found (or NoKey) and the
\* best key so far with its distance and Jaccard similarity.
CompareKey(scan, key, existingClusters, candidateKey, candidateTokens, primaryCategory, thresholds) ==
    IF CategoryDiffers(MapGet(existingClusters, key), primaryCategory)
    THEN [scan EXCEPT !.checked = Append(@, key)]
    ELSE
    LET pattern == PatternLookup(scan.st.patternCache, PatternCacheSize,
                                 candidateKey, key)
        afterPattern == [scan EXCEPT !.st.patternCache = pattern.map,
                                     !.checked = Append(@, key)]
        distanceRatio == NormalizedLevenshtein(key, candidateKey)
    IN IF pattern.result THEN [afterPattern EXCEPT !.match = key]
       ELSE IF RatLess(thresholds.distanceThreshold, distanceRatio) THEN afterPattern
       ELSE
       LET got == StrategyTokens(afterPattern.st, key)
           afterTokens == [afterPattern EXCEPT !.st = WithTokens(@, got)]
           jaccard == StrategyJaccard(scan.st, candidateTokens, got.result)
           accepted == Accepted(distanceRatio, jaccard, thresholds)
           better == \/ scan.bestKey = NoKey
                     \/ RatLess(distanceRatio, scan.bestScore)
                     \/ (RatEq(distanceRatio, scan.bestScore)
                         /\ RatLess(scan.bestJaccard, jaccard))
       IN IF accepted /\ better
          THEN [afterTokens EXCEPT !.bestKey = key, !.bestScore = distanceRatio,
                                   !.bestJaccard = jaccard]
          ELSE afterTokens

\* findSimilarClusterKey, the loop over the sampled keys from position i: it ends
\* at an immediate match and after MaxComparisons keys.
RECURSIVE CompareKeys(_, _, _, _, _, _, _, _)
CompareKeys(scan, keys, i, existingClusters, candidateKey, candidateTokens, primaryCategory, thresholds) ==
    IF i > Len(keys) \/ i > MaxComparisons \/ scan.match # NoKey THEN scan
    ELSE CompareKeys(CompareKey(scan, keys[i], existingClusters, candidateKey,
                                candidateTokens, primaryCategory, thresholds),
                     keys, i + 1, existingClusters, candidateKey, candidateTokens,
                     primaryCategory, thresholds)

\* The one element of a set of one element.
Only(set) == CHOOSE x \in set : TRUE

\* TextBasedStrategy.findSimilarClusterKey: the key found (NoKey for null) and
\* the strategy with its caches afterwards.
FindSimilarClusterKey(st, existingClusters, candidateKey, primaryCategory, thresholds) ==
    IF candidateKey = EmptyString \/ Len(existingClusters) = 0
    THEN [key |-> NoKey, st |-> st, checked |-> << >>]
    ELSE Only({ Only({ [key |-> IF scan.match # NoKey THEN scan.match ELSE scan.bestKey,
                        st |-> scan.st, checked |-> scan.checked] :
                       scan \in {CompareKeys([st |-> WithTokens(st, got), match |-> NoKey,
                                              checked |-> << >>,
                                              bestKey |-> NoKey, bestScore |-> <<1, 1>>,
                                              bestJaccard |-> <<0, 1>>],
                                             GetLastNKeys(existingClusters, ClusterSampleSize),
                                             1, existingClusters, candidateKey, got.result,
                                             primaryCategory, thresholds)} }) :
                got \in {StrategyTokens(st, candidateKey)} })

\* TextBasedStrategy.findOrCreateClusterKey(clusters, event).
FindOrCreateClusterKey(st, map, event, thresholds) ==
    LET primaryKey == GetEventKey(event) IN
    IF MapHas(map, primaryKey) THEN [key |-> primaryKey, st |-> st, checked |-> << >>]
    ELSE Only({ [key |-> IF similar.key # NoKey THEN similar.key ELSE primaryKey,
                 st |-> similar.st, checked |-> similar.checked] :
                similar \in {FindSimilarClusterKey(st, map, primaryKey,
                                                   GetEventCategory(event), thresholds)} })

\* A variables Map that is an object of its own, sharing no Set with an event:
\* of is the event whose Sets the Map refers to (none), added holds the Sets the
\* Map owns.
NoEvent == 0
OwnMap(added) == [of |-> NoEvent, added |-> added]

\* A merge that leaves the cluster's Map as it was.
KeepClusterVariables(clusterVariables, eventVariables) == clusterVariables

\* mergeEventVariables(clusterVariables, eventVariables): every value of the
\* event goes into the cluster's Set of the placeholder, created when missing.
RECURSIVE MergeEventVariables(_, _)
MergeEventVariables(clusterVariables, eventVariables) ==
    IF Len(eventVariables) = 0 THEN clusterVariables
    ELSE LET placeholder == Head(eventVariables).key
             values == Head(eventVariables).value
             target == IF MapHas(clusterVariables, placeholder)
                       THEN MapGet(clusterVariables, placeholder) ELSE {}
         IN MergeEventVariables(MapSet(clusterVariables, placeholder, target \cup values),
                                Tail(eventVariables))

\* createNewCluster(key, event) for the event at position e.
CreateNewCluster(key, e) ==
    [signature |-> key, templateLines |-> templateLines[e], events |-> << >>,
     variables |-> OwnMap(<< >>), categoryCounts |-> << >>,
     firstEvent |-> e, primaryCategory |-> GetEventCategory(events[e])]

\* categoryCounts.get(category) || 0.
CountOf(categoryCounts, category) ==
    IF MapHas(categoryCounts, category) THEN MapGet(categoryCounts, category) ELSE 0

\* The event put before the members of the cluster.
UnshiftMember(members, e) == <<e>> \o members

\* buildClustersAbstract: cluster.events.push(event).
PushMember(members, e) == Append(members, e)

\* buildClustersAbstract, the loop body after the key was found: the event at
\* position e joins the cluster under clusterKey.
AddToCluster(map, clusterKey, e) ==
    LET created == IF MapHas(map, clusterKey) THEN map
                   ELSE MapSet(map, clusterKey, CreateNewCluster(clusterKey, e))
        cluster == MapGet(created, clusterKey)
        categoryName == GetEventCategory(events[e])
        counts == MapSet(cluster.categoryCounts, categoryName,
                         CountOf(cluster.categoryCounts, categoryName) + 1)
        currentPrimaryCount == CountOf(counts, cluster.primaryCategory)
        candidateCount == CountOf(counts, categoryName)
    IN MapSet(created, clusterKey,
              [cluster EXCEPT !.events = PushMember(@, e),
                              !.variables =
                                  OwnMap(MergeEventVariables(@.added, variables[e])),
                              !.categoryCounts = counts,
                              !.primaryCategory = IF candidateCount > currentPrimaryCount
                                                  THEN categoryName ELSE @])

\* Array.from(clusters.values()).sort((a, b) => b.events.length - a.events.length).
SortBySize(map) ==
    SortDescending([k \in 1 .. Len(map) |-> map[k].value],
                   [k \in 1 .. Len(map) |-> Len(map[k].value.events)])

\* HIERARCHICAL_CONFIG: the distance and Jaccard thresholds of the three levels.
HierarchicalConfig ==
    <<[distanceThreshold |-> <<15, 100>>, jaccardThreshold |-> <<85, 100>>],
      [distanceThreshold |-> <<25, 100>>, jaccardThreshold |-> <<70, 100>>],
      [distanceThreshold |-> <<40, 100>>, jaccardThreshold |-> <<50, 100>>]>>

\* HierarchicalCluster.getSimilarityThreshold(level).
GetSimilarityThreshold(lvl) ==
    IF lvl \in 1 .. 3
    THEN IF RatLess(HierarchicalConfig[lvl].distanceThreshold,
                    HierarchicalConfig[lvl].jaccardThreshold)
         THEN HierarchicalConfig[lvl].distanceThreshold
         ELSE HierarchicalConfig[lvl].jaccardThreshold
    ELSE <<80, 100>>

\* new HierarchicalCluster(initialEvent) for the event at position e.
\* this._variables = initialEvent.variables: the cluster refers to the Map of
\* the event, and so to its Sets, and owns none.
NewHierarchicalCluster(e) ==
    [events |-> <<e>>, signature |-> events[e].signature,
     templateLines |-> templateLines[e],
     variables |-> [of |-> e, added |-> << >>], variablesCopied |-> FALSE,
     primaryCategory |-> events[e].primaryCategory, similarityLevel |-> 1]

\* HierarchicalCluster.calculateSimilarity(event, adaptiveThresholds), a rational.
CalculateSimilarity(cluster, event, thresholds) ==
    LET structuralSim == CalculateStructuralSimilarity(cluster.signature, event.signature)
        distanceRatio == NormalizedLevenshtein(cluster.signature, event.signature)
        jaccard == JaccardSimilarity(TokenizeForSimilarity(cluster.signature),
                                     TokenizeForSimilarity(event.signature))
    IN IF ShouldClusterByStructure(cluster.signature, event.signature) THEN <<90, 100>>
       ELSE IF structuralSim >= 80 THEN <<90, 100>>
       ELSE IF structuralSim >= 60 THEN <<70, 100>>
       ELSE IF RatLess(thresholds.distanceThreshold, distanceRatio) THEN <<0, 1>>
       \* (1 - distanceRatio) * 0.6 + jaccard * 0.4
       ELSE <<6 * (distanceRatio[2] - distanceRatio[1]) * jaccard[2]
                 + 4 * jaccard[1] * distanceRatio[2],
              10 * distanceRatio[2] * jaccard[2]>>

\* HierarchicalCluster.shouldAccept(event, similarityLevel, adaptiveThresholds).
ShouldAccept(cluster, event, similarityLevel, thresholds) ==
    IF similarityLevel < cluster.similarityLevel THEN FALSE
    ELSE RatLessEq(GetSimilarityThreshold(similarityLevel),
                   CalculateSimilarity(cluster, event, thresholds))

\* _ensureVariablesCopy made new Map(this._variables): the entries of the
\* cluster's Map under the placeholders of the seed event hold the Sets of the
\* seed event themselves.
SharesSetOfSeed(state, placeholder) ==
    MapHas(state.variables[state.cluster.variables.of], placeholder)

\* HierarchicalCluster.addEvent, the loop over eventVars.entries(): the state is
\* the cluster and the variables of every event.
RECURSIVE AddVariables(_, _)
AddVariables(state, entries) ==
    IF Len(entries) = 0 THEN state
    ELSE LET placeholder == Head(entries).key
             values == Head(entries).value
             seed == state.cluster.variables.of
         IN AddVariables(
                IF SharesSetOfSeed(state, placeholder)
                THEN [state EXCEPT !.variables[seed] =
                         MapSet(@, placeholder, MapGet(@, placeholder) \cup values)]
                ELSE [state EXCEPT !.cluster.variables.added =
                         MapSet(@, placeholder,
                                (IF MapHas(@, placeholder) THEN MapGet(@, placeholder)
                                 ELSE {}) \cup values)],
                Tail(entries))

\* HierarchicalCluster.addEvent(event, similarityLevel) for the event at position e.
AddEvent(state, e, similarityLevel) ==
    AddVariables([state EXCEPT !.cluster.events = Append(@, e),
                               !.cluster.similarityLevel = Max(@, similarityLevel),
                               !.cluster.variablesCopied = TRUE],
                 state.variables[e])

\* clusterAtLevelLSH: cluster.addEvent for each of the candidates in turn.
RECURSIVE AddEvents(_, _, _)
AddEvents(state, candidates, similarityLevel) ==
    IF Len(candidates) = 0 THEN state
    ELSE AddEvents(AddEvent(state, Head(candidates), similarityLevel),
                   Tail(candidates), similarityLevel)

\* A pass that marks the events a cluster accepted, and not its seed event.
MarkAccepted(processed, seedEvent, candidates) == processed \cup Range(candidates)

\* clusterAtLevelLSH: processedEvents.add(seedEvent), and processedEvents.add
\* for every accepted candidate.
MarkProcessed(processed, seedEvent, candidates) ==
    processed \cup {seedEvent} \cup Range(candidates)

\* A pass that adds the events of a new cluster to the cluster formed last.
ReopenLast(list, cluster) ==
    IF Len(list) = 0 THEN <<cluster>>
    ELSE [list EXCEPT ![Len(list)].events = @ \o cluster.events]

\* clusterAtLevelLSH: clusters.push(cluster), the clusters of a pass joining
\* those of the passes before in performHierarchicalClustering.
PushCluster(list, cluster) == Append(list, cluster)

\* A pass that leaves the events it accepted in the pool of unassigned events.
LeaveInPool(unassigned, candidates) == unassigned

\* clusterAtLevelLSH: the accepted candidates are spliced out of unassignedEvents.
RemoveAccepted(unassigned, candidates) ==
    SelectSeq(unassigned, LAMBDA e : e \notin Range(candidates))

\* performHierarchicalClustering: lshIndex.add(event, signature) for the events
\* from position e on.
RECURSIVE BuildIndex(_, _, _)
BuildIndex(index, signatures, e) ==
    IF e > Len(signatures) THEN index
    ELSE BuildIndex(LshAdd(index, e, signatures[e]), signatures, e + 1)

\* convertHierarchicalToStandardClusters, the categoryCounts of a member list.
RECURSIVE CountCategories(_, _)
CountCategories(counts, members) ==
    IF Len(members) = 0 THEN counts
    ELSE LET category == GetEventCategory(events[Head(members)])
         IN CountCategories(MapSet(counts, category, CountOf(counts, category) + 1),
                            Tail(members))

\* map.get(placeholder) as a set of values, empty when the Map has no such key.
ValuesOf(map, placeholder) ==
    IF MapHas(map, placeholder) THEN MapGet(map, placeholder) ELSE {}

\* cluster.variables.get(placeholder): the Set of the seed event the Map refers
\* to, or the Set the Map owns.
ClusterValues(cluster, placeholder) ==
    (IF cluster.variables.of = NoEvent THEN {}
     ELSE ValuesOf(variables[cluster.variables.of], placeholder))
        \cup ValuesOf(cluster.variables.added, placeholder)

\* convertHierarchicalToStandardClusters.
ConvertHierarchicalToStandardClusters(hierarchicalClusters) ==
    [k \in 1 .. Len(hierarchicalClusters) |->
        LET cluster == hierarchicalClusters[k]
        IN [signature |-> cluster.signature, events |-> cluster.events,
            templateLines |-> cluster.templateLines, variables |-> cluster.variables,
            primaryCategory |-> cluster.primaryCategory,
            categoryCounts |-> CountCategories(<< >>, cluster.events),
            firstEvent |-> cluster.events[1],
            similarityLevel |-> cluster.similarityLevel]]

\* A run that goes on with the cluster Map of the run before.
MapOfLastRun == clusters

\* buildClustersAbstract: clusters = new Map().
NewMap == << >>

\* buildClustersAbstract passes its own options, { batchSize: 50 }, to
\* strategy.initialize: they hold no enhancedTokenization.
DriverOptions == [batchSize |-> 50]

\* buildClustersNoEmbeddings passes the feature flag to strategy.initialize.
FeatureOptions(flags) == [enhancedTokenization |-> flags.enhancedTokenization]

\* buildClustersNoEmbeddings(events) up to its first suspension point. With
\* hierarchical clustering the signatures and the LSH index are built; without it
\* the strategy is initialized, by buildClustersNoEmbeddings and again by
\* buildClustersAbstract, which starts with an empty cluster Map.
BuildClustersNoEmbeddings ==
    /\ phase = "start"
    /\ returned' = << >>
    /\ IF features.hierarchicalClustering
       THEN LET signatures ==
                    [e \in 1 .. Len(events) |->
                        ComputeSignature(TokenizeForSimilarity(events[e].signature))]
            IN /\ eventSignatures' = signatures
               /\ lshIndex' = BuildIndex(EmptyIndex, signatures, 1)
               /\ clusters' = << >>
               /\ processedEvents' = {}
               /\ level' = 1
               /\ unassignedEvents' = [e \in 1 .. Len(events) |-> e]
               /\ phase' = "hierarchical"
               /\ UNCHANGED <<strategy, cursor>>
       ELSE /\ \E passed \in {Initialize(FeatureOptions(features))} :
                  \* initialize sets every field anew: nothing of passed is kept
                  strategy' = Initialize(DriverOptions)
            /\ clusters' = NewMap
            /\ cursor' = 0
            /\ phase' = "flat"
            /\ UNCHANGED <<lshIndex, eventSignatures, level, unassignedEvents,
                           processedEvents>>
    /\ UNCHANGED <<events, variables, templateLines, captured, features,
                   adaptiveConfig, firstReturned, checkedKeys, lshQuery>>
    /\ UNCHANGED <<poolVars, cacheVars, textVars,
                   setupVars, restVars>>

\* buildClustersAbstract, one turn of the loop over the events; after the last
\* event the clusters are sorted by size and returned.
ProcessEvent ==
    /\ phase = "flat"
    /\ cursor < Len(events)
    /\ \E e \in {cursor + 1} :
       \E thresholds \in {CalculateAdaptiveThresholds(events, adaptiveConfig)} :
       \E found \in {FindOrCreateClusterKey(strategy, clusters, events[e], thresholds)} :
       \E map \in {AddToCluster(clusters, found.key, e)} :
          /\ strategy' = found.st
          /\ checkedKeys' = found.checked
          /\ clusters' = map
          /\ cursor' = e
          /\ IF e = Len(events)
             THEN /\ returned' = SortBySize(map)
                  /\ phase' = "returned"
             ELSE UNCHANGED <<returned, phase>>
    /\ UNCHANGED <<events, variables, templateLines, captured, features,
                   adaptiveConfig, eventSignatures, level,
                   unassignedEvents, processedEvents, firstReturned>>
    /\ UNCHANGED <<poolVars, cacheVars, lshVars, textVars,
                   setupVars, restVars>>

\* clusterAtLevelLSH, one turn of the loop: the first unassigned event seeds a
\* cluster, which takes the unassigned neighbours the index returns and the
\* cluster accepts.
ClusterSeed ==
    /\ phase = "hierarchical"
    /\ Len(unassignedEvents) > 0
    /\ \E seedEvent \in {Head(unassignedEvents)}, rest \in {Tail(unassignedEvents)} :
       \E cluster \in {NewHierarchicalCluster(seedEvent)} :
       \E thresholds \in {CalculateAdaptiveThresholds(events, adaptiveConfig)} :
       \E results \in {LshQuery(lshIndex, eventSignatures[seedEvent],
                                 GetSimilarityThreshold(level))} :
       \E candidates \in
              {SelectSeq([k \in 1 .. Len(results) |-> results[k].itemId],
                         LAMBDA e : /\ e \in Range(rest)
                                    /\ ShouldAccept(cluster, events[e], level, thresholds))} :
       \E merged \in {AddEvents([cluster |-> cluster, variables |-> variables],
                                 candidates, level)} :
          /\ clusters' = PushCluster(clusters, merged.cluster)
          /\ variables' = merged.variables
          /\ processedEvents' = MarkProcessed(processedEvents, seedEvent, candidates)
          /\ unassignedEvents' = RemoveAccepted(rest, candidates)
    /\ UNCHANGED <<events, templateLines, captured, features,
                   adaptiveConfig, phase, cursor, strategy,
                   eventSignatures, level, returned, firstReturned,
                   checkedKeys>>
    /\ UNCHANGED <<poolVars, cacheVars, lshVars, textVars,
                   setupVars, restVars>>

\* performHierarchicalClustering after a pass: the next pass takes the events not
\* yet processed; after the third pass buildClustersHierarchical converts the
\* clusters and returns them.
NextLevel ==
    /\ phase = "hierarchical"
    /\ Len(unassignedEvents) = 0
    /\ IF level < 3
       THEN /\ level' = level + 1
            /\ unassignedEvents' =
                   SelectSeq([e \in 1 .. Len(events) |-> e],
                             LAMBDA e : e \notin processedEvents)
            /\ UNCHANGED <<phase, returned>>
       ELSE /\ returned' = ConvertHierarchicalToStandardClusters(clusters)
            /\ phase' = "returned"
            /\ UNCHANGED <<level, unassignedEvents>>
    /\ UNCHANGED <<events, variables, templateLines, captured, features,
                   adaptiveConfig, cursor, clusters, strategy,
                   eventSignatures, processedEvents, firstReturned,
                   checkedKeys>>
    /\ UNCHANGED <<poolVars, cacheVars, lshVars, textVars,
                   setupVars, restVars>>

\* The caller runs the flat clustering once more on the same events.
RunAgain ==
    /\ phase = "returned"
    /\ ~features.hierarchicalClustering
    /\ firstReturned = << >>
    /\ firstReturned' = returned
    /\ phase' = "start"
    /\ UNCHANGED <<events, variables, templateLines, captured, features,
                   adaptiveConfig, cursor, clusters, strategy,
                   eventSignatures, level, unassignedEvents, processedEvents, returned,
                   checkedKeys>>
    /\ UNCHANGED <<poolVars, cacheVars, lshVars, textVars,
                   setupVars, restVars>>

\* Before a call of buildClustersNoEmbeddings: every event has its template
\* lines, which join to its signature, and nothing was clustered yet.
ClusterStart ==
    /\ templateLines = [e \in 1 .. Len(events) |-> <<events[e].signature>>]
    /\ captured = variables
    /\ features \in [hierarchicalClustering : BOOLEAN, enhancedTokenization : {FALSE}]
    /\ adaptiveConfig \in {DefaultAdaptive, PermissiveAdaptive}
    /\ phase = "start"
    /\ cursor = 0
    /\ clusters = << >>
    /\ strategy = << >>
    /\ eventSignatures = << >>
    /\ level = 0
    /\ unassignedEvents = << >>
    /\ processedEvents = {}
    /\ returned = << >>
    /\ firstReturned = << >>
    /\ checkedKeys = << >>

\* A call of buildClustersNoEmbeddings on a valid, non-empty event list whose
\* lines held no variable part: buildTemplate left every variables Map empty.
ClusterInit ==
    /\ events \in EventLists(MaxEvents)
    /\ variables = [e \in 1 .. Len(events) |-> << >>]
    /\ ClusterStart

\* The variables Maps buildTemplate leaves on an event: the placeholders its
\* lines held, each with the Set of the values it captured.
VariableKinds ==
    { <<[key |-> "{ID}", value |-> {"a1"}]>>,
      <<[key |-> "{ID}", value |-> {"b2"}]>>,
      <<[key |-> "{ID}", value |-> {"c3"}]>>,
      <<[key |-> "{IP}", value |-> {"10.0.0.5"}], [key |-> "{ID}", value |-> {"b2"}]>> }

\* The placeholders of the variables Maps.
Placeholders == {"{ID}", "{IP}"}

\* The event lists whose events differ in their signature only: "EPERM ab" or
\* "xy cd", all of category Error.
PlainEventLists ==
    { list \in EventLists(MaxEvents) :
        \A e \in 1 .. Len(list) :
            /\ list[e].primaryCategory = "Error"
            /\ list[e].signature \in { <<69, 80, 69, 82, 77, 32, 97, 98>>,
                                        <<120, 121, 32, 99, 100>> } }

\* A call of buildClustersNoEmbeddings on events whose lines held variable parts.
VariablesInit ==
    /\ events \in PlainEventLists
    /\ variables \in [1 .. Len(events) -> VariableKinds]
    /\ ClusterStart
    /\ adaptiveConfig = DefaultAdaptive

\* The signatures "ab cd", "ef ghi" and "ab ghi": the third shares a token with
\* each of the two others, which share none.
NearSignatures ==
    { <<97, 98, 32, 99, 100>>, <<101, 102, 32, 103, 104, 105>>,
      <<97, 98, 32, 103, 104, 105>> }

\* A call of buildClustersNoEmbeddings on events of one category that are near
\* each other, the base thresholds being 0.5, 0.1 and 0.1.
NearInit ==
    /\ events \in UNION { [1 .. n -> [signature : NearSignatures,
                                      primaryCategory : {"Error"}]] :
                          n \in 1 .. MaxEvents }
    /\ variables = [e \in 1 .. Len(events) |-> << >>]
    /\ ClusterStart
    /\ adaptiveConfig = PermissiveAdaptive

ClusterNext ==
    \/ BuildClustersNoEmbeddings
    \/ ProcessEvent
    \/ ClusterSeed
    \/ NextLevel
    \/ RunAgain

(***************************************************************************)
(* Event splitting: splitIntoEvents, eventBoundary and createEvent         *)
(* (src/log-pipeline/log-processor.js). A line is named by its position    *)
(* in the input.                                                           *)
(***************************************************************************)
\* Bound of the splitting model: the most lines of an input text.
MaxLines == 3

\* \s as far as the lines here go: tab and space.
WhiteSpace == {9, 32}

\* String.prototype.trim.
RECURSIVE TrimStart(_)
TrimStart(str) ==
    IF Len(str) > 0 /\ Head(str) \in WhiteSpace THEN TrimStart(Tail(str)) ELSE str

RECURSIVE TrimEnd(_)
TrimEnd(str) ==
    IF Len(str) > 0 /\ str[Len(str)] \in WhiteSpace
    THEN TrimEnd(SubSeq(str, 1, Len(str) - 1)) ELSE str

Trim(str) == TrimEnd(TrimStart(str))

\* /^\d{4}-\d{2}-\d{2}/.test(str).
LeadingDate(str) ==
    /\ Len(str) >= 10
    /\ \A k \in {1, 2, 3, 4, 6, 7, 9, 10} : str[k] \in Digits
    /\ str[5] = 45
    /\ str[8] = 45

\* /^[A-Za-z0-9_.-]+:\d+/.test(str).
FileAndLine(str) ==
    \E k \in 1 .. (Len(str) - 2) :
        /\ \A m \in 1 .. k : str[m] \in WordChars \cup {46, 45}
        /\ str[k + 1] = 58
        /\ str[k + 2] \in Digits

\* /^\[[^\]]+\]/.test(str).
BracketedTag(str) ==
    /\ Len(str) >= 3
    /\ str[1] = 91
    /\ \E k \in 3 .. Len(str) :
          /\ str[k] = 93
          /\ \A m \in 2 .. (k - 1) : str[m] # 93

\* The level keywords: Error, Exception, Warning, WARN, INFO, DEBUG, TRACE.
LevelKeywords ==
    { <<69, 114, 114, 111, 114>>,
      <<69, 120, 99, 101, 112, 116, 105, 111, 110>>,
      <<87, 97, 114, 110, 105, 110, 103>>,
      <<87, 65, 82, 78>>,
      <<73, 78, 70, 79>>,
      <<68, 69, 66, 85, 71>>,
      <<84, 82, 65, 67, 69>> }

\* /\b(Error|Exception|Warning|WARN|INFO|DEBUG|TRACE)\b/.test(str).
LevelKeyword(str) ==
    \E word \in LevelKeywords : \E i \in 0 .. (Len(str) - Len(word)) :
        /\ \A k \in 1 .. Len(word) : str[i + k] = word[k]
        /\ i = 0 \/ str[i] \notin WordChars
        /\ i + Len(word) = Len(str) \/ str[i + Len(word) + 1] \notin WordChars

\* The HTTP verbs: GET, POST, PUT, DELETE, PATCH.
HttpVerbs ==
    { <<71, 69, 84>>,
      <<80, 79, 83, 84>>,
      <<80, 85, 84>>,
      <<68, 69, 76, 69, 84, 69>>,
      <<80, 65, 84, 67, 72>> }

\* /^(GET|POST|PUT|DELETE|PATCH)\s/.test(str).
HttpVerb(str) ==
    \E verb \in HttpVerbs :
        /\ Len(str) > Len(verb)
        /\ \A k \in 1 .. Len(verb) : str[k] = verb[k]
        /\ str[Len(verb) + 1] \in WhiteSpace

\* eventBoundary(line, hasCurrent).
EventBoundary(line, hasCurrent) ==
    LET trimmed == Trim(line)
    IN IF trimmed = EmptyString THEN hasCurrent
       ELSE IF ~hasCurrent THEN FALSE
       ELSE \/ LeadingDate(trimmed)
            \/ FileAndLine(trimmed)
            \/ BracketedTag(trimmed)
            \/ LevelKeyword(trimmed)
            \/ HttpVerb(trimmed)

\* noisePatterns as shipped: /heartbeat/i, /healthcheck/i, /debug/i.
NoisePatterns ==
    { <<104, 101, 97, 114, 116, 98, 101, 97, 116>>,
      <<104, 101, 97, 108, 116, 104, 99, 104, 101, 99, 107>>,
      <<100, 101, 98, 117, 103>> }

\* isNoise(line).
IsNoise(line) == \E pattern \in NoisePatterns : Includes(ToLowerCase(line), pattern)

\* createEvent(lines), for the lines at the given positions of the text: the
\* list of the event made, empty for null, when no line is left after the noise
\* and the blank lines are dropped. The event keeps its lines (originalLines)
\* and the lines left (processedLines).
CreateEvent(text, positions) ==
    LET filtered == SelectSeq(positions,
                              LAMBDA p : ~IsNoise(text[p]) /\ Trim(text[p]) # EmptyString)
    IN IF Len(filtered) = 0 THEN << >>
       ELSE <<[originalLines |-> positions, processedLines |-> filtered]>>

\* splitIntoEvents: events.push(event) with event.order = order++, unless
\* createEvent returned null.
PushEvent(eventList, made) ==
    IF Len(made) = 0 THEN eventList
    ELSE Append(eventList, [originalLines |-> made[1].originalLines,
                            processedLines |-> made[1].processedLines,
                            order |-> Len(eventList)])

\* splitIntoEvents, the loop from the line at position p on and the final event.
RECURSIVE SplitLoop(_, _, _, _)
SplitLoop(text, p, current, eventList) ==
    IF p > Len(text) THEN PushEvent(eventList, CreateEvent(text, current))
    ELSE IF EventBoundary(text[p], Len(current) > 0)
    THEN SplitLoop(text, p + 1, <<p>>, PushEvent(eventList, CreateEvent(text, current)))
    ELSE SplitLoop(text, p + 1, Append(current, p), eventList)

\* splitIntoEvents(inputText), the text given by its lines.
SplitIntoEvents(text) == SplitLoop(text, 1, << >>, << >>)

\* The lines of the input texts: "", " ", "2024-01-02 up", "db.js:12 fail",
\* "[db] fail", "an Error", "GET /x", "at foo" and "heartbeat".
LogLines ==
    { <<>>,
      <<32>>,
      <<50, 48, 50, 52, 45, 48, 49, 45, 48, 50, 32, 117, 112>>,
      <<100, 98, 46, 106, 115, 58, 49, 50, 32, 102, 97, 105, 108>>,
      <<91, 100, 98, 93, 32, 102, 97, 105, 108>>,
      <<97, 110, 32, 69, 114, 114, 111, 114>>,
      <<71, 69, 84, 32, 47, 120>>,
      <<97, 116, 32, 102, 111, 111>>,
      <<104, 101, 97, 114, 116, 98, 101, 97, 116>> }

\* inputText.split(newlineRegex): a text has one line at least.
RECURSIVE LogTexts(_)
LogTexts(n) ==
    IF n = 0 THEN {}
    ELSE {<<line>> : line \in LogLines}
         \cup LogTexts(n - 1)
         \cup {Append(text, line) : text \in LogTexts(n - 1), line \in LogLines}

\* The caller calls splitIntoEvents(inputText).
Split ==
    /\ ~splitReturned
    /\ logEvents' = SplitIntoEvents(inputLines)
    /\ splitReturned' = TRUE
    /\ UNCHANGED inputLines
    /\ UNCHANGED <<poolVars, cacheVars, lshVars, clusterVars,
                   setupVars, restVars>>

\* Before the call.
SplitInit ==
    /\ inputLines \in LogTexts(MaxLines)
    /\ logEvents = << >>
    /\ splitReturned = FALSE

SplitNext == Split

(***************************************************************************)
(* The worker side: setupWorker's self.onmessage                           *)
(* (src/utils/worker-setup.js). A request is named by its position in the  *)
(* order of arrival.                                                       *)
(***************************************************************************)
\* Bound of the worker model: the most messages the worker receives.
MaxRequests == 2

\* The properties every object literal inherits from Object.prototype, as
\* far as the message types here go.
InheritedProperties == {"toString"}

\* handlers[type] for the handlers object { computeSignatures: async ... }:
\* the registered handler, an inherited property, or undefined.
HandlersLookup(type) ==
    IF type \in Handlers THEN "registered"
    ELSE IF type \in InheritedProperties THEN "inherited"
    ELSE Undefined

\* The types of the messages sent to the worker.
RequestTypes == {"computeSignatures", "ping", "toString"}

\* The state of one call of self.onmessage: the promise of the handler, the
\* timer of timeoutPromise and the promise of Promise.race.
NotHandled == [handler |-> "none", timer |-> "none", race |-> "none"]

\* The race is settled by whichever of the two promises settles first.
RaceAlwaysOpen(invocation) == TRUE

\* Promise.race: the promise has not been settled yet.
RacePending(invocation) == invocation.race = "pending"

\* self.postMessage({ type: 'result', data: result }); request is history, the
\* request the message answers.
ResultMessage(k, result) == [type |-> "result", data |-> result, request |-> k]

\* self.postMessage({ type: 'error', data: error.message }) of the catch block.
ErrorMessage(k, message) == [type |-> "error", data |-> message, request |-> k]

\* The message of the error timeoutPromise rejects with, timeoutMs being 90000.
TimeoutMessage == "Processing timeout after 90 seconds"

\* What the handler of the message returns or throws.
HandlerResult(message) == IF HandlerThrows(message) THEN "TypeError" ELSE "results"

\* self.onmessage(e): a registered handler is started behind a timer; an
\* inherited property is called as if it were a handler, toString returning
\* "[object Undefined]" at once, which is posted; any other type is logged.
OnMessage(type, data) ==
    /\ Len(requests) < MaxRequests
    /\ requests' = Append(requests, [type |-> type, data |-> data])
    /\ \E found \in {HandlersLookup(type)} :
          IF found = "registered"
          THEN /\ invocations' = Append(invocations,
                      [handler |-> "running", timer |-> "pending", race |-> "pending"])
               /\ UNCHANGED <<posts, warnings>>
          ELSE IF found = "inherited"
          THEN /\ invocations' = Append(invocations,
                      [handler |-> "fulfilled", timer |-> "pending", race |-> "fulfilled"])
               /\ posts' = Append(posts, ResultMessage(Len(requests) + 1,
                                                       "[object Undefined]"))
               /\ UNCHANGED warnings
          ELSE /\ invocations' = Append(invocations, NotHandled)
               /\ warnings' = Append(warnings, type)
               /\ UNCHANGED posts
    /\ UNCHANGED <<poolVars, cacheVars, lshVars, clusterVars, textVars, restVars>>

\* The handler of request k returns or throws: when the race is still open,
\* the await ends with it and the result or the error is posted.
HandlerSettles(k) ==
    /\ k \in 1 .. Len(requests)
    /\ invocations[k].handler = "running"
    /\ \E outcome \in {IF HandlerThrows(requests[k]) THEN "rejected" ELSE "fulfilled"} :
          IF RacePending(invocations[k])
          THEN /\ invocations' = [invocations EXCEPT ![k].handler = outcome,
                                                     ![k].race = outcome]
               /\ posts' = Append(posts,
                      IF outcome = "fulfilled"
                      THEN ResultMessage(k, HandlerResult(requests[k]))
                      ELSE ErrorMessage(k, HandlerResult(requests[k])))
          ELSE /\ invocations' = [invocations EXCEPT ![k].handler = outcome]
               /\ UNCHANGED posts
    /\ UNCHANGED <<requests, warnings>>
    /\ UNCHANGED <<poolVars, cacheVars, lshVars, clusterVars, textVars, restVars>>

\* The timer of request k fires, the timers set before it having fired:
\* timeoutPromise is rejected, and when the race is still open the await
\* throws and the catch block posts the error.
TimerFires(k) ==
    /\ k \in 1 .. Len(requests)
    /\ invocations[k].timer = "pending"
    /\ \A j \in 1 .. (k - 1) : invocations[j].timer # "pending"
    /\ IF RacePending(invocations[k])
       THEN /\ invocations' = [invocations EXCEPT ![k].timer = "fired",
                                                  ![k].race = "rejected"]
            /\ posts' = Append(posts, ErrorMessage(k, TimeoutMessage))
       ELSE /\ invocations' = [invocations EXCEPT ![k].timer = "fired"]
            /\ UNCHANGED posts
    /\ UNCHANGED <<requests, warnings>>
    /\ UNCHANGED <<poolVars, cacheVars, lshVars, clusterVars, textVars, restVars>>

\* The worker after setupWorker, before any message.
SetupWorkerInit ==
    /\ requests = << >>
    /\ invocations = << >>
    /\ posts = << >>
    /\ warnings = << >>

\* The timers that are due fire.
Timeouts == \E k \in 1 .. MaxRequests : TimerFires(k)

SetupWorkerNext ==
    \/ \E type \in RequestTypes, data \in PayloadData : OnMessage(type, data)
    \/ \E k \in 1 .. MaxRequests : HandlerSettles(k)
    \/ Timeouts

(***************************************************************************)
(* The pipeline invocation: compressLog (src/worker-logslimmer.js) up to   *)
(* the clustered events, with the validation of InputValidator             *)
(* (src/utils/array-sampling.js). The input text is given by its length    *)
(* and by the number of events it splits into.                             *)
(***************************************************************************)
\* INPUT_LIMITS.MAX_LOG_SIZE_MB and INPUT_LIMITS.MAX_EVENTS.
MaxLogSizeMB == 100
MaxEventsLimit == 50000

\* The characters of a megabyte in validateLogInput's UTF-16 estimate,
\* (length * 2) / (1024 * 1024): sizeInMB > limit when length > limit * this.
CharsPerMB == (1024 * 1024) \div 2

\* validateEvents(events).errors for a list of n well-formed events.
ValidateEvents(n) ==
    IF n = 0 THEN <<"Events array cannot be empty">>
    ELSE IF n > MaxEventsLimit THEN <<"Event count exceeds maximum">>
    ELSE << >>

\* The lengths of the input texts, in characters: the empty text, short
\* texts, the longest text within MAX_LOG_SIZE_MB and longer ones.
TextLengths == {0, 1, 2, 3, MaxLogSizeMB * CharsPerMB, MaxLogSizeMB * CharsPerMB + 1,
                MaxLogSizeMB * CharsPerMB + 2}

\* The numbers of events of a text.
EventCounts == {0, 1, 2, 3, MaxEventsLimit, MaxEventsLimit + 1}

\* The input texts: a text of n events has n lines at least, and the events
\* that pass the score cut-offs and are no Story markers are some of its events.
PipelineInputs ==
    { input \in [length : TextLengths, events : EventCounts, clusterable : EventCounts] :
        /\ input.clusterable <= input.events
        /\ 2 * input.events <= input.length + 1 }

\* compressLog(inputText) up to its first suspension point: a blank text is
\* answered at once; else the text is split, the events are filtered and
\* buildClustersNoEmbeddings validates the event list, throwing when it is
\* invalid, and starts clustering.
CompressLog ==
    /\ pipelinePhase = "start"
    /\ \E errorList \in {ValidateEvents(pipelineInput.clusterable)} :
          IF pipelineInput.length = 0
          THEN /\ pipelinePhase' = "returned"
               /\ pipelineOutcome' = "No log provided."
          ELSE IF Len(errorList) > 0
          THEN /\ pipelinePhase' = "failed"
               /\ pipelineOutcome' = "Invalid input"
          ELSE /\ pipelinePhase' = "clustering"
               /\ UNCHANGED pipelineOutcome
    /\ UNCHANGED <<pipelineInput, clusteredEvents>>
    /\ UNCHANGED <<poolVars, cacheVars, lshVars, clusterVars, textVars, setupVars,
                   configVars, storageVars, moreVars>>

\* buildClustersAbstract, one batch of batchSize events: each is assigned to a
\* cluster; after the last batch compressLog formats the clusters and returns.
ProcessBatch ==
    /\ pipelinePhase = "clustering"
    /\ \E done \in {Min(clusteredEvents + DriverOptions.batchSize,
                        pipelineInput.clusterable)} :
          /\ clusteredEvents' = done
          /\ IF done = pipelineInput.clusterable
             THEN /\ pipelinePhase' = "returned"
                  /\ pipelineOutcome' = "report"
             ELSE UNCHANGED <<pipelinePhase, pipelineOutcome>>
    /\ UNCHANGED pipelineInput
    /\ UNCHANGED <<poolVars, cacheVars, lshVars, clusterVars, textVars, setupVars,
                   configVars, storageVars, moreVars>>

\* Before a call of compressLog.
PipelineInit ==
    /\ pipelineInput \in PipelineInputs
    /\ pipelinePhase = "start"
    /\ pipelineOutcome = Undefined
    /\ clusteredEvents = 0

PipelineNext ==
    \/ CompressLog
    \/ ProcessBatch

(***************************************************************************)
(* The pipeline configuration: getLogPipelineConfig and its normalizers    *)
(* (part_003). A JavaScript value is a record of its type, its number and  *)
(* its text; a regular expression is given by its source.                  *)
(***************************************************************************)
\* Bound of the configuration model: the most entries of an override.
MaxEntries == 2

JsUndefined == [type |-> "undefined", number |-> 0, text |-> ""]
JsNull == [type |-> "null", number |-> 0, text |-> ""]
JsNaN == [type |-> "number", number |-> 0, text |-> "NaN"]
JsNumber(n) == [type |-> "number", number |-> n, text |-> ""]
JsString(s) == [type |-> "string", number |-> 0, text |-> s]
JsRegExp(source) == [type |-> "RegExp", number |-> 0, text |-> source]

\* Number(value): undefined and a text that is no numeral give NaN, null and
\* the empty string give 0.
ToNumber(value) ==
    IF value.type = "number" THEN value
    ELSE IF value.type = "null" THEN JsNumber(0)
    ELSE IF value.type = "string"
    THEN IF value.text = "" THEN JsNumber(0)
         ELSE IF value.text = "250" THEN JsNumber(250)
         ELSE JsNaN
    ELSE JsNaN

\* Number.isFinite(value).
IsFinite(value) == value.type = "number" /\ value.text = ""

\* normalizeNumber(value, fallback).
NormalizeNumber(value, fallback) ==
    IF IsFinite(ToNumber(value)) THEN ToNumber(value) ELSE fallback

\* new RegExp(source, 'i') throws a SyntaxError for these sources.
Uncompilable == {"(", "["}

\* DEFAULT_PIPELINE_CONFIG.
DefaultLatencyBuckets ==
    <<[minMs |-> 500, weight |-> 1], [minMs |-> 1000, weight |-> 2],
      [minMs |-> 5000, weight |-> 3]>>
DefaultStatusWeights ==
    <<[key |-> "2xx", value |-> -1], [key |-> "4xx", value |-> 2],
      [key |-> "5xx", value |-> 4], [key |-> "401", value |-> 3],
      [key |-> "403", value |-> 3], [key |-> "404", value |-> 3]>>
DefaultMessageWeights ==
    <<[regex |-> "(error|fail|exception|timed out|denied)", weight |-> 3],
      [regex |-> "\\[.*?ERROR.*?\\]", weight |-> 3],
      [regex |-> "(warn|deprecated)", weight |-> 1],
      [regex |-> "\\b(WORKFLOW_|EditorClient)\\b", weight |-> 1],
      [regex |-> "(authentication|unauthorized|permission)", weight |-> 1],
      [regex |-> "access granted", weight |-> -2]>>
DefaultNoisePatterns == <<"heartbeat", "healthcheck", "debug">>

\* What a normalizer gives: the value it returns, or the TypeError it throws.
Returns(value) == [threw |-> FALSE, value |-> value]
Throws == [threw |-> TRUE, value |-> << >>]

\* Array.prototype.sort((a, b) => a.minMs - b.minMs): stable, ascending.
RECURSIVE InsertBucket(_, _)
InsertBucket(sorted, bucket) ==
    IF Len(sorted) = 0 THEN <<bucket>>
    ELSE IF sorted[Len(sorted)].minMs <= bucket.minMs THEN Append(sorted, bucket)
    ELSE Append(InsertBucket(SubSeq(sorted, 1, Len(sorted) - 1), bucket),
                sorted[Len(sorted)])

RECURSIVE SortBuckets(_)
SortBuckets(buckets) ==
    IF Len(buckets) = 0 THEN << >>
    ELSE InsertBucket(SortBuckets(SubSeq(buckets, 1, Len(buckets) - 1)),
                      buckets[Len(buckets)])

\* bucket.minMs on an entry that is null or undefined throws a TypeError.
ReadThrows(entry) == entry.type \in {"null", "undefined"}

\* normalizeLatencyBuckets(buckets).
NormalizeLatencyBuckets(buckets) ==
    IF buckets.type = "undefined" THEN Returns(DefaultLatencyBuckets)
    ELSE IF buckets.type # "array" THEN Returns(DefaultLatencyBuckets)
    ELSE IF \E k \in 1 .. Len(buckets.entries) : ReadThrows(buckets.entries[k])
    THEN Throws
    ELSE LET mapped == [k \in 1 .. Len(buckets.entries) |->
                           [minMs |-> NormalizeNumber(buckets.entries[k].minMs, JsNaN),
                            weight |-> NormalizeNumber(buckets.entries[k].weight,
                                                       JsNumber(0))]]
             kept == SelectSeq(mapped, LAMBDA bucket :
                                  /\ IsFinite(bucket.minMs)
                                  /\ IsFinite(bucket.weight)
                                  /\ bucket.minMs.number >= 0)
             normalized == SortBuckets([k \in 1 .. Len(kept) |->
                                           [minMs |-> kept[k].minMs.number,
                                            weight |-> kept[k].weight.number]])
         IN Returns(IF Len(normalized) > 0 THEN normalized ELSE DefaultLatencyBuckets)

\* normalizeStatusWeights(statusWeights), the loop over Object.entries.
RECURSIVE StatusEntries(_, _)
StatusEntries(normalized, entries) ==
    IF Len(entries) = 0 THEN normalized
    ELSE LET numericWeight == NormalizeNumber(Head(entries).value, JsNull)
         IN StatusEntries(IF numericWeight = JsNull THEN normalized
                          ELSE MapSet(normalized, Head(entries).key, numericWeight.number),
                          Tail(entries))

\* normalizeStatusWeights(statusWeights): Object.entries(null) throws a TypeError.
NormalizeStatusWeights(statusWeights) ==
    IF statusWeights.type = "undefined" THEN Returns(DefaultStatusWeights)
    ELSE IF statusWeights.type = "null" THEN Throws
    ELSE LET normalized == StatusEntries(<< >>, statusWeights.entries)
         IN Returns(IF Len(normalized) > 0 THEN normalized ELSE DefaultStatusWeights)

\* normalizeMessageWeights, the map callback: the entry made, none for null.
MessageEntry(entry) ==
    LET weight == NormalizeNumber(entry.weight, JsNull)
    IN IF entry.type # "object" THEN << >>
       ELSE IF weight = JsNull THEN << >>
       ELSE IF entry.pattern.type = "RegExp"
       THEN <<[regex |-> entry.pattern.text, weight |-> weight.number]>>
       ELSE IF entry.pattern.type # "string" \/ entry.pattern.text = "" THEN << >>
       ELSE IF entry.pattern.text \in Uncompilable THEN << >>
       ELSE <<[regex |-> entry.pattern.text, weight |-> weight.number]>>

\* The entries a map callback made, in order.
RECURSIVE Flatten(_)
Flatten(lists) ==
    IF Len(lists) = 0 THEN << >> ELSE Head(lists) \o Flatten(Tail(lists))

\* normalizeMessageWeights(messageWeights).
NormalizeMessageWeights(messageWeights) ==
    IF messageWeights.type # "array" THEN Returns(DefaultMessageWeights)
    ELSE LET normalized == Flatten([k \in 1 .. Len(messageWeights.entries) |->
                                       MessageEntry(messageWeights.entries[k])])
         IN Returns(IF Len(normalized) > 0 THEN normalized ELSE DefaultMessageWeights)

\* normalizeNoisePatterns, the map callback: the pattern made, none for null.
NoiseEntry(pattern) ==
    IF pattern.type = "RegExp" THEN <<pattern.text>>
    ELSE IF pattern.type = "string" /\ pattern.text \notin Uncompilable
    THEN <<pattern.text>>
    ELSE << >>

\* normalizeNoisePatterns(patterns).
NormalizeNoisePatterns(patterns) ==
    LET array == IF patterns.type = "array" THEN patterns.entries ELSE << >>
        normalized == Flatten([k \in 1 .. Len(array) |-> NoiseEntry(array[k])])
    IN Returns(IF Len(normalized) > 0 THEN normalized ELSE DefaultNoisePatterns)

\* The lists of at most n entries.
RECURSIVE ListsOf(_, _)
ListsOf(entries, n) ==
    IF n = 0 THEN {<< >>}
    ELSE ListsOf(entries, n - 1)
         \cup {Append(list, entry) : list \in ListsOf(entries, n - 1), entry \in entries}

\* The values that are no array: undefined, null and a string.
NoArray(type) == [type |-> type, entries |-> << >>]

\* The override values of latencyBuckets: no array, or an array of buckets,
\* of strings and of null.
BucketEntries ==
    { [type |-> "object", minMs |-> JsNumber(250), weight |-> JsNumber(2)],
      [type |-> "object", minMs |-> JsString("250"), weight |-> JsString("heavy")],
      [type |-> "object", minMs |-> JsNumber(100), weight |-> JsUndefined],
      [type |-> "object", minMs |-> JsString("soon"), weight |-> JsNumber(1)],
      [type |-> "object", minMs |-> JsNumber(-1), weight |-> JsNumber(1)],
      [type |-> "string", minMs |-> JsUndefined, weight |-> JsUndefined],
      [type |-> "null", minMs |-> JsUndefined, weight |-> JsUndefined] }
LatencyOverrides ==
    {NoArray("undefined"), NoArray("null"), NoArray("string")}
        \cup {[type |-> "array", entries |-> list] : list \in ListsOf(BucketEntries, MaxEntries)}

\* The override values of statusWeights: undefined, null, or an object.
StatusEntrySet ==
    { [key |-> "500", value |-> JsNumber(5)],
      [key |-> "404", value |-> JsString("high")],
      [key |-> "2xx", value |-> JsNull] }
StatusOverrides ==
    {NoArray("undefined"), NoArray("null")}
        \cup {[type |-> "object", entries |-> list] : list \in ListsOf(StatusEntrySet, 1)}

\* The override values of messageWeights.
MessageEntries ==
    { [type |-> "object", weight |-> JsNumber(2), pattern |-> JsString("panic")],
      [type |-> "object", weight |-> JsNumber(2), pattern |-> JsString("(")],
      [type |-> "object", weight |-> JsString("high"), pattern |-> JsRegExp("panic")],
      [type |-> "null", weight |-> JsUndefined, pattern |-> JsUndefined] }
MessageOverrides ==
    {NoArray("undefined"), NoArray("null")}
        \cup {[type |-> "array", entries |-> list] : list \in ListsOf(MessageEntries, 1)}

\* The override values of noisePatterns.
NoiseEntries == {JsRegExp("ping"), JsString("["), JsNull}
NoiseOverrides ==
    {NoArray("undefined"), NoArray("null")}
        \cup {[type |-> "array", entries |-> list] : list \in ListsOf(NoiseEntries, 1)}

\* getLogPipelineConfig(overrides), no global override being set: the four
\* fields are normalized in turn, and the first TypeError ends the call.
GetLogPipelineConfig ==
    /\ ~configCalled
    /\ configCalled' = TRUE
    /\ \E latency \in {NormalizeLatencyBuckets(overrides.latencyBuckets)},
          status \in {NormalizeStatusWeights(overrides.statusWeights)},
          message \in {NormalizeMessageWeights(overrides.messageWeights)},
          noise \in {NormalizeNoisePatterns(overrides.noisePatterns)} :
          configResult' =
              IF latency.threw \/ status.threw THEN [threw |-> TRUE, config |-> << >>]
              ELSE [threw |-> FALSE,
                    config |-> <<latency.value, status.value, message.value,
                                 noise.value>>]
    /\ UNCHANGED overrides
    /\ UNCHANGED <<poolVars, cacheVars, lshVars, clusterVars, textVars, setupVars,
                   pipelineVars, storageVars, moreVars>>

\* Before a call of getLogPipelineConfig.
ConfigInit ==
    /\ overrides \in [latencyBuckets : LatencyOverrides, statusWeights : StatusOverrides,
                      messageWeights : MessageOverrides, noisePatterns : NoiseOverrides]
    /\ configCalled = FALSE
    /\ configResult = [threw |-> FALSE, config |-> << >>]

ConfigNext == GetLogPipelineConfig

(***************************************************************************)
(* The stored lines of an event: Compression (part_011) and the            *)
(* originalLines getter of createEvent (log-processor.js).                 *)
(***************************************************************************)
\* Bound of the storage model: the code units tried in place of one of a buffer.
MaxCorruptions == 4

\* compress keeps a string shorter than this as it is, and decompress
\* returns such a string as it is when it holds no code unit from 0x100 on.
RawLimit == 50

\* The codes of the single characters the dictionary starts with.
FirstCodes == 256

\* dictionary.hasOwnProperty(s) in compress: the single characters below 256
\* and the strings added since.
InDictionary(added, s) ==
    \/ Len(s) = 1 /\ s[1] < FirstCodes
    \/ \E j \in 1 .. Len(added) : added[j] = s

\* String.fromCharCode(dictionary[s]) in compress: the code of s as a code
\* unit, 0 for undefined.
CodeOf(added, s) ==
    IF Len(s) = 1 /\ s[1] < FirstCodes THEN s[1]
    ELSE IF \E j \in 1 .. Len(added) : added[j] = s
    THEN (FirstCodes - 1 + CHOOSE j \in 1 .. Len(added) : added[j] = s) % HalfWord
    ELSE 0

\* compress, the loop from position i on and the last code.
RECURSIVE CompressFrom(_, _, _, _, _)
CompressFrom(uncompressed, i, w, added, result) ==
    IF i > Len(uncompressed)
    THEN IF Len(w) > 0 THEN Append(result, CodeOf(added, w)) ELSE result
    ELSE IF InDictionary(added, Append(w, uncompressed[i]))
    THEN CompressFrom(uncompressed, i + 1, Append(w, uncompressed[i]), added, result)
    ELSE CompressFrom(uncompressed, i + 1, <<uncompressed[i]>>,
                      Append(added, Append(w, uncompressed[i])),
                      Append(result, CodeOf(added, w)))

\* Compression.compress(uncompressed).
Compress(uncompressed) ==
    IF Len(uncompressed) = 0 THEN EmptyString
    ELSE IF Len(uncompressed) < RawLimit THEN uncompressed
    ELSE CompressFrom(uncompressed, 1, EmptyString, << >>, << >>)

\* What decompress returns: a string, or null.
Decoded(text) == [null |-> FALSE, text |-> text]
Null == [null |-> TRUE, text |-> EmptyString]

\* decompress, one code k after the entry w: the list of the entry the code
\* stands for, empty when there is none.
EntryOf(added, w, k) ==
    IF k < FirstCodes THEN <<<<k>>>>
    ELSE IF k - FirstCodes + 1 <= Len(added) THEN <<added[k - FirstCodes + 1]>>
    ELSE IF k = FirstCodes + Len(added) THEN <<Append(w, w[1])>>
    ELSE << >>

\* decompress, the loop from position i on.
RECURSIVE DecompressFrom(_, _, _, _, _)
DecompressFrom(compressed, i, w, added, result) ==
    IF i > Len(compressed) THEN Decoded(result)
    ELSE LET found == EntryOf(added, w, compressed[i])
         IN IF Len(found) = 0 THEN Null
            ELSE DecompressFrom(compressed, i + 1, found[1],
                                Append(added, Append(w, found[1][1])),
                                result \o found[1])

\* Compression.decompress(compressed).
Decompress(compressed) ==
    IF Len(compressed) = 0 THEN Decoded(EmptyString)
    ELSE IF Len(compressed) < RawLimit
            /\ \A i \in 1 .. Len(compressed) : compressed[i] < FirstCodes
    THEN Decoded(compressed)
    ELSE DecompressFrom(compressed, 2, <<compressed[1]>>, << >>, <<compressed[1]>>)

\* String.prototype.split('\n') on line followed by str: the pieces between
\* the line feeds, one more than there are line feeds.
SplitLines(str, line) ==
    LET breaks == {i \in 1 .. Len(str) : str[i] = 10}
        count == Cardinality(breaks)
        break(k) == IF k = 0 THEN 0
                    ELSE IF k = count + 1 THEN Len(str) + 1
                    ELSE CHOOSE i \in breaks : Cardinality({j \in breaks : j < i}) = k - 1
        piece(k) == [m \in 1 .. (break(k) - break(k - 1) - 1) |-> str[break(k - 1) + m]]
    IN [k \in 1 .. (count + 1) |-> IF k = 1 THEN line \o piece(1) ELSE piece(k)]

\* The originalLines getter of an event.
OriginalLines(decompressed) ==
    IF decompressed.null \/ decompressed.text = EmptyString THEN << >>
    ELSE SplitLines(decompressed.text, EmptyString)

\* The texts createEvent compresses, lines.join('\n'): the 52 letters, sixty
\* times "a", twenty lines "ab", and the two lines "ab" and "cd".
StoredTexts ==
    { <<97, 98, 99, 100, 101, 102, 103, 104, 105, 106, 107, 108, 109, 110, 111, 112, 113, 114, 115, 116, 117, 118, 119, 120, 121, 122, 65, 66, 67, 68, 69, 70, 71, 72, 73, 74, 75, 76, 77, 78, 79, 80, 81, 82, 83, 84, 85, 86, 87, 88, 89, 90>>,
      [i \in 1 .. 60 |-> 97],
      [i \in 1 .. 60 |-> <<97, 98, 10>>[((i - 1) % 3) + 1]],
      <<97, 98, 10, 99, 100>> }

\* The code units a corrupted buffer holds in place of one of its own.
CorruptUnits == {FirstCodes + c : c \in 0 .. (MaxCorruptions - 2)} \cup {97}

\* The buffers an event may hold: what compress returned, whole or with one
\* code unit replaced.
Buffers ==
    LET stored == {Compress(text) : text \in StoredTexts}
    IN stored \cup UNION { { [buffer EXCEPT ![p] = unit] :
                                  p \in 1 .. Len(buffer), unit \in CorruptUnits } :
                              buffer \in stored }

\* event.originalLines is read: the buffer is decompressed and split.
ReadOriginalLines ==
    /\ ~linesRead
    /\ linesRead' = TRUE
    /\ \E result \in {Decompress(compressedLines)} :
          /\ decompressResult' = result
          /\ originalLines' = OriginalLines(result)
    /\ UNCHANGED compressedLines
    /\ UNCHANGED <<poolVars, cacheVars, lshVars, clusterVars, textVars, setupVars,
                   pipelineVars, configVars, moreVars>>

\* An event holding a buffer, its lines not read yet.
StorageInit ==
    /\ compressedLines \in Buffers
    /\ linesRead = FALSE
    /\ decompressResult = Null
    /\ originalLines = << >>

StorageNext == ReadOriginalLines

(***************************************************************************)
(* weightedJaccardSimilarity on token lists of any kind                    *)
(* (src/log-pipeline/enhanced-tokenizer.js).                               *)
(***************************************************************************)
\* Bound of the similarity model: the longest token list.
MaxTokens == 2

\* The tokens of the lists: "get" (technical), "404" (a status code), "ab" and
\* the 2-gram "ab cd".
SampleTokens ==
    { <<103, 101, 116>>, <<52, 48, 52>>, <<97, 98>>, <<97, 98, 32, 99, 100>> }

\* The token lists of at most n tokens.
RECURSIVE TokenLists(_)
TokenLists(n) ==
    IF n = 0 THEN {<< >>}
    ELSE TokenLists(n - 1)
         \cup {Append(list, token) : list \in TokenLists(n - 1), token \in SampleTokens}

\* weightedJaccardSimilarity(tokensA, tokensB) is called.
WeightedJaccard ==
    /\ jaccardResult = << >>
    /\ jaccardResult' = WeightedJaccardSimilarity(leftTokens, rightTokens)
    /\ UNCHANGED <<leftTokens, rightTokens>>
    /\ UNCHANGED <<poolVars, cacheVars, lshVars, clusterVars, textVars, setupVars,
                   pipelineVars, configVars, storageVars, keyVars, concurrentVars,
                   laterVars>>

\* Before a call of weightedJaccardSimilarity.
JaccardInit ==
    /\ leftTokens \in TokenLists(MaxTokens)
    /\ rightTokens \in TokenLists(MaxTokens)
    /\ jaccardResult = << >>

JaccardNext == WeightedJaccard

(***************************************************************************)
(* The keys of the pipeline configuration: what getLogPipelineConfig       *)
(* (part_003) resolves from its argument, globalThis.LOGSLIMMER_CONFIG and *)
(* LOGSLIMMER_CONFIG_JSON, read by the pipeline (log-processor.js).        *)
(***************************************************************************)
JsBoolean(b) == [type |-> "boolean", number |-> IF b THEN 1 ELSE 0, text |-> ""]

\* normalizeBool(value, fallback).
NormalizeBool(value, fallback) ==
    IF value.type = "boolean" THEN value
    ELSE IF value.type = "string" /\ value.text = "true" THEN JsBoolean(TRUE)
    ELSE IF value.type = "string" /\ value.text = "false" THEN JsBoolean(FALSE)
    ELSE fallback

\* normalizeScoreCutoff(value, fallback).
NormalizeScoreCutoff(value, fallback) ==
    IF NormalizeNumber(value, JsNull) = JsNull THEN fallback
    ELSE NormalizeNumber(value, JsNull)

\* object[key], undefined when the object has no such property.
Property(object, key) == IF MapHas(object, key) THEN MapGet(object, key) ELSE JsUndefined

\* { ...target, ...source }.
RECURSIVE Spread(_, _)
Spread(target, source) ==
    IF Len(source) = 0 THEN target
    ELSE Spread(MapSet(target, Head(source).key, Head(source).value), Tail(source))

\* DEFAULT_PIPELINE_CONFIG.
DefaultPipelineConfig ==
    << [key |-> "latencyBuckets", value |-> DefaultLatencyBuckets],
       [key |-> "statusWeights", value |-> DefaultStatusWeights],
       [key |-> "messageWeights", value |-> DefaultMessageWeights],
       [key |-> "noisePatterns", value |-> DefaultNoisePatterns],
       [key |-> "maxLineLength", value |-> JsNumber(240)],
       [key |-> "showOtherInSummary", value |-> JsBoolean(FALSE)],
       [key |-> "scoreCutoffNonOther", value |-> JsNumber(-1)],
       [key |-> "scoreCutoffOther", value |-> JsNumber(0)],
       [key |-> "maxOtherClusters", value |-> JsNumber(5)],
       [key |-> "maxClusters", value |-> JsNumber(20)],
       [key |-> "debugScore", value |-> JsBoolean(FALSE)] >>

\* An override source that is not set, and one that is an object.
NotGiven == [given |-> FALSE, entries |-> << >>]
Given(entries) == [given |-> TRUE, entries |-> entries]

\* resolveGlobalOverrides(): globalThis.LOGSLIMMER_CONFIG when it is an object,
\* else the parsed LOGSLIMMER_CONFIG_JSON, else {}.
ResolveGlobalOverrides(global, env) ==
    IF global.given THEN global.entries
    ELSE IF env.given THEN env.entries
    ELSE << >>

\* getLogPipelineConfig(overrides): the object of the keys it normalizes. The
\* four structured keys are not overridden here and resolve to their defaults. LOGSLIMMER_DEBUG_SCORE
\* is not set.
ResolveLogPipelineConfig(argument, global, env) ==
    LET merged == Spread(Spread(DefaultPipelineConfig,
                                ResolveGlobalOverrides(global, env)),
                         IF argument.given THEN argument.entries ELSE << >>)
        fallback(key) == MapGet(DefaultPipelineConfig, key)
    IN << [key |-> "latencyBuckets", value |-> DefaultLatencyBuckets],
           [key |-> "statusWeights", value |-> DefaultStatusWeights],
           [key |-> "messageWeights", value |-> DefaultMessageWeights],
           [key |-> "noisePatterns", value |-> DefaultNoisePatterns],
           [key |-> "maxLineLength",
            value |-> NormalizeNumber(Property(merged, "maxLineLength"),
                                      fallback("maxLineLength"))],
           [key |-> "showOtherInSummary",
            value |-> NormalizeBool(Property(merged, "showOtherInSummary"),
                                    fallback("showOtherInSummary"))],
           [key |-> "scoreCutoffNonOther",
            value |-> NormalizeScoreCutoff(Property(merged, "scoreCutoffNonOther"),
                                           fallback("scoreCutoffNonOther"))],
           [key |-> "scoreCutoffOther",
            value |-> NormalizeScoreCutoff(Property(merged, "scoreCutoffOther"),
                                           fallback("scoreCutoffOther"))],
           [key |-> "maxOtherClusters",
            value |-> NormalizeNumber(Property(merged, "maxOtherClusters"),
                                      fallback("maxOtherClusters"))],
           [key |-> "maxClusters",
            value |-> NormalizeNumber(Property(merged, "maxClusters"),
                                      fallback("maxClusters"))],
           [key |-> "debugScore",
            value |-> NormalizeBool(Property(merged, "debugScore"),
                                    fallback("debugScore"))] >>

\* The scalar keys the README lists under "Key fields", each with a value to
\* supply for it.
KeyFieldEntries ==
    { [key |-> "maxLineLength", value |-> JsNumber(80)],
      [key |-> "showOtherInSummary", value |-> JsBoolean(TRUE)],
      [key |-> "maxClusters", value |-> JsNumber(7)],
      [key |-> "miscUniqueLimit", value |-> JsNumber(3)],
      [key |-> "keepFileLinePrefix", value |-> JsBoolean(TRUE)],
      [key |-> "preserveTimestamps", value |-> JsBoolean(TRUE)],
      [key |-> "keepHumanNotes", value |-> JsBoolean(TRUE)],
      [key |-> "stackFramePreviewHead", value |-> JsNumber(2)],
      [key |-> "stackFramePreviewTail", value |-> JsNumber(2)] }

\* An override source: not set, or an object of one key field.
OverrideSources == {NotGiven} \cup {Given(<<entry>>) : entry \in KeyFieldEntries}

\* The configuration is resolved.
ResolveConfig ==
    /\ resolvedConfig = << >>
    /\ resolvedConfig'
          = ResolveLogPipelineConfig(argumentOverrides, globalOverrides, envOverrides)
    /\ UNCHANGED <<argumentOverrides, globalOverrides, envOverrides>>
    /\ UNCHANGED <<poolVars, cacheVars, lshVars, clusterVars, textVars, setupVars,
                   pipelineVars, configVars, storageVars, jaccardVars,
                   concurrentVars, laterVars>>

\* Before the configuration is resolved.
KeyInit ==
    /\ argumentOverrides \in OverrideSources
    /\ globalOverrides \in OverrideSources
    /\ envOverrides \in OverrideSources
    /\ resolvedConfig = << >>

KeyNext == ResolveConfig

(***************************************************************************)
(* Two calls of buildClustersNoEmbeddings in flight at once, on the flat   *)
(* strategy (part_008, part_004, part_007). The events of both calls are   *)
(* the event list of the model, the first call having the events before    *)
(* those of the second. A call runs from one await to the next without     *)
(* interruption: the only await of a run of at most one batch is the one   *)
(* on strategy.findOrCreateClusterKey. The hierarchical strategy has no    *)
(* await and runs a call to its end at once.                               *)
(***************************************************************************)
\* Bound of the model of two calls: the most events of one call.
MaxCallEvents == 2

\* The calls.
Calls == {1, 2}

\* The Map and the strategy of the first call, for every call.
OfFirstCall(call) == 1

\* buildClustersAbstract: const clusters = new Map(), and
\* buildClustersNoEmbeddings: new TextBasedStrategy(adaptiveThresholds), are
\* objects of the call that made them.
OwnObjects(call) == call

\* The events of a call, from their positions in the event list.
EventsOf(positions) == [k \in 1 .. Len(positions) |-> events[positions[k]]]

\* A call before it starts.
NewCall(positions) ==
    [positions |-> positions, phase |-> "start", cursor |-> 0,
     thresholds |-> << >>, strategy |-> << >>, clusters |-> << >>,
     clusterKey |-> NoKey, returned |-> << >>]

\* buildClustersNoEmbeddings(events) up to the first await: the thresholds, the
\* strategy, initialized twice, the empty cluster Map, and
\* strategy.findOrCreateClusterKey for the first event.
CallStarts(call) ==
    /\ clusterings[call].phase = "start"
    /\ \E own \in {OwnObjects(call)} :
       \E thresholds \in {CalculateAdaptiveThresholds(EventsOf(clusterings[call].positions),
                                                     adaptiveConfig)} :
       \E found \in {FindOrCreateClusterKey(Initialize(DriverOptions), NewMap,
                                            events[clusterings[call].positions[1]],
                                            thresholds)} :
          clusterings' =
              [[clusterings EXCEPT ![own].clusters = NewMap,
                                   ![own].strategy = found.st]
                  EXCEPT ![call].thresholds = thresholds,
                         ![call].clusterKey = found.key,
                         ![call].phase = "awaiting"]
    /\ UNCHANGED <<poolVars, cacheVars, lshVars, clusterVars, textVars, setupVars,
                   pipelineVars, configVars, storageVars, jaccardVars, keyVars,
                   laterVars>>

\* buildClustersAbstract from one await to the next: the event joins the cluster
\* under the key that was found; then the key of the next event is looked for,
\* or, after the last event, the clusters are sorted, the caches of the strategy
\* are cleared and the clusters are returned.
CallResumes(call) ==
    /\ clusterings[call].phase = "awaiting"
    /\ \E own \in {OwnObjects(call)}, e \in {clusterings[call].cursor + 1} :
       \E map \in {AddToCluster(clusterings[own].clusters, clusterings[call].clusterKey,
                                clusterings[call].positions[e])} :
          IF e < Len(clusterings[call].positions)
          THEN \E found \in {FindOrCreateClusterKey(
                                 clusterings[own].strategy, map,
                                 events[clusterings[call].positions[e + 1]],
                                 clusterings[call].thresholds)} :
                  clusterings' =
                      [[clusterings EXCEPT ![own].clusters = map,
                                           ![own].strategy = found.st]
                          EXCEPT ![call].cursor = e,
                                 ![call].clusterKey = found.key]
          ELSE clusterings' =
                   [[clusterings EXCEPT ![own].clusters = map,
                                        ![own].strategy = Initialize(DriverOptions)]
                       EXCEPT ![call].cursor = e,
                              ![call].clusterKey = NoKey,
                              ![call].returned = SortBySize(map),
                              ![call].phase = "returned"]
    /\ UNCHANGED <<poolVars, cacheVars, lshVars, clusterVars, textVars, setupVars,
                   pipelineVars, configVars, storageVars, jaccardVars, keyVars,
                   laterVars>>

\* The events of a call: all of category Error.
CallEventLists ==
    UNION { [1 .. n -> [signature : Signatures, primaryCategory : {"Error"}]] :
              n \in 1 .. MaxCallEvents }

\* Two calls of buildClustersNoEmbeddings on two event lists, none started.
ConcurrentInit ==
    /\ \E first \in CallEventLists, second \in CallEventLists :
          /\ events = first \o second
          /\ clusterings =
                 <<NewCall([k \in 1 .. Len(first) |-> k]),
                   NewCall([k \in 1 .. Len(second) |-> Len(first) + k])>>
    /\ variables = [e \in 1 .. Len(events) |-> << >>]
    /\ ClusterStart
    /\ ~features.hierarchicalClustering
    /\ adaptiveConfig = DefaultAdaptive

ConcurrentNext == \E call \in Calls : CallStarts(call) \/ CallResumes(call)

(***************************************************************************)
(* The worker pool from construction to terminate(). WorkerPool takes the  *)
(* URL of the worker script as an argument: besides the replies of         *)
(* setupWorker the pool gets here the messages of a script that answers    *)
(* with an id, that of a task, of a task answered before, or of no task.   *)
(***************************************************************************)
\* Bound of the model: the messages the worker scripts post on their own.
MaxScriptPosts == 2

\* An id no task has.
UnknownId == MaxTasks + 1

\* The task map after terminate() when terminate() leaves it as it is.
Kept(tmap) == tmap

\* WorkerPool.terminate: this.taskMap.clear().
Cleared(tmap) == {}

\* The script of worker w posts a message with an id.
ScriptPosts(w, type, id) ==
    /\ \E k \in 1 .. Len(workers) : workers[k] = w
    /\ scriptPosts < MaxScriptPosts
    /\ scriptPosts' = scriptPosts + 1
    /\ outbox' = [outbox EXCEPT ![w] =
                      Append(@, [type |-> type, id |-> id, data |-> "results",
                                 cause |-> UndefinedId])]
    /\ UNCHANGED <<workers, queue, activeTaskCounts, taskMap, taskIdCounter,
                   taskMessage, future, inbox, delivered, errors, assigned, stranded>>
    /\ UNCHANGED <<terminated, refused>>
    /\ UNCHANGED <<cacheVars, lshVars, clusterVars, textVars, setupVars,
                   pipelineVars, configVars, storageVars, jaccardVars, keyVars,
                   concurrentVars, afterVars>>

\* WorkerPool.terminate(): the workers are terminated, and the list of workers,
\* the queue and the task map are emptied. A terminated worker handles no
\* message any more; the messages it posted before may still reach the pool.
Terminate ==
    /\ ~terminated
    /\ terminated' = TRUE
    /\ workers' = << >>
    /\ queue' = << >>
    /\ taskMap' = Cleared(taskMap)
    /\ inbox' = [w \in WorkerIndex |-> << >>]
    /\ outbox' \in {outbox, [w \in WorkerIndex |-> << >>]}
    /\ UNCHANGED <<activeTaskCounts, taskIdCounter, taskMessage, future, delivered,
                   errors, assigned, stranded>>
    /\ UNCHANGED <<refused, scriptPosts>>
    /\ UNCHANGED <<cacheVars, lshVars, clusterVars, textVars, setupVars,
                   pipelineVars, configVars, storageVars, jaccardVars, keyVars,
                   concurrentVars, afterVars>>

\* WorkerPool.run() on a pool without workers: it throws, so that the promise
\* of the call is rejected; no task is created.
RunThrows ==
    /\ Len(workers) = 0
    /\ refused' = TRUE
    /\ UNCHANGED <<terminated, scriptPosts>>
    /\ UNCHANGED <<poolVars, cacheVars, lshVars, clusterVars, textVars, setupVars,
                   pipelineVars, configVars, storageVars, jaccardVars, keyVars,
                   concurrentVars, afterVars>>

LifecycleNext ==
    \/ Run("computeSignatures", "events")
    \/ \E w \in WorkerIndex : HandleMessage(w)
    \/ \E w \in WorkerIndex, type \in {"result", "error"}, id \in (1 .. taskIdCounter) \cup {UnknownId} :
          ScriptPosts(w, type, id)
    \/ Terminate
    \/ RunThrows

(***************************************************************************)
(* calculateAdaptiveThresholds (part_008) on two datasets, the second with *)
(* no fewer events and no shorter signatures than the first.               *)
(***************************************************************************)
\* The numbers of events of a dataset, about smallDatasetThreshold and
\* mediumDatasetThreshold, and the lengths of its signatures, about
\* shortLogThreshold.
DatasetSizes ==
    {1, DefaultAdaptive.smallDatasetThreshold, DefaultAdaptive.smallDatasetThreshold + 1,
     DefaultAdaptive.mediumDatasetThreshold - 1, DefaultAdaptive.mediumDatasetThreshold,
     DefaultAdaptive.mediumDatasetThreshold + 1}
SignatureLengths ==
    {1, DefaultAdaptive.shortLogThreshold, DefaultAdaptive.shortLogThreshold + 1,
     2 * DefaultAdaptive.shortLogThreshold}
Datasets == [totalEvents : DatasetSizes, length : SignatureLengths]

\* The events of a dataset: signatures of the letter a.
DatasetEvents(dataset) ==
    [k \in 1 .. dataset.totalEvents |->
        [signature |-> [j \in 1 .. dataset.length |-> 97], primaryCategory |-> "Error"]]

\* calculateAdaptiveThresholds(events) on both datasets.
CalculateThresholds ==
    /\ smallerThresholds = << >>
    /\ smallerThresholds' =
           CalculateAdaptiveThresholds(DatasetEvents(smallerDataset), DefaultAdaptive)
    /\ largerThresholds' =
           CalculateAdaptiveThresholds(DatasetEvents(largerDataset), DefaultAdaptive)
    /\ UNCHANGED <<smallerDataset, largerDataset>>
    /\ UNCHANGED <<poolVars, cacheVars, lshVars, clusterVars, textVars, setupVars,
                   pipelineVars, configVars, storageVars, jaccardVars, keyVars,
                   concurrentVars, lifecycleVars, signatureVars,
                   roundTripVars>>

ThresholdInit ==
    /\ smallerDataset \in Datasets
    /\ largerDataset \in Datasets
    /\ smallerDataset.totalEvents <= largerDataset.totalEvents
    /\ smallerDataset.length <= largerDataset.length
    /\ smallerThresholds = << >>
    /\ largerThresholds = << >>

ThresholdNext == CalculateThresholds

(***************************************************************************)
(* An event as createEvent makes it (log-processor.js): it holds what      *)
(* Compression.compress returned for its lines joined by line feeds.       *)
(***************************************************************************)
\* Bound of the model: the length of the short texts.
MaxRawLength == 3

\* The code units of the short texts: a, b, the line feed and U+2192, an arrow.
RawUnits == {97, 98, 10, 8594}

\* The texts of createEvent: lines of which one at least is not blank, joined
\* by line feeds. The short texts, and texts of RawLimit code units and more:
\* those of StoredTexts, sixty arrows, and sixty times a, b and an arrow.
RawTexts ==
    { text \in UNION { [1 .. n -> RawUnits] : n \in 1 .. MaxRawLength } :
        \E i \in 1 .. Len(text) : text[i] # 10 }
    \cup StoredTexts
    \cup { [i \in 1 .. 60 |-> 8594],
           [i \in 1 .. 60 |-> <<97, 98, 8594>>[((i - 1) % 3) + 1]] }

\* createEvent(lines): the event holds Compression.compress(lines.join('\n')).
CreatedInit ==
    /\ rawText \in RawTexts
    /\ compressedLines = Compress(rawText)
    /\ linesRead = FALSE
    /\ decompressResult = Null
    /\ originalLines = << >>

(***************************************************************************)
(* One computeSignatures request to the similarity worker                  *)
(* (src/worker-similarity.js), and the signatures the main thread computes *)
(* for the same events (hierarchical-clusterer.js).                        *)
(***************************************************************************)
\* Bound of the model: the items of a request.
MaxItems == 2

\* The signature texts of the items: the empty text, a text without tokens,
\* a text of one token and texts of two tokens.
ItemTexts ==
    { EmptyString, <<45, 45>>, <<97, 98>>, <<97, 98, 32, 99, 100>>, <<71, 69, 84, 32, 52, 48, 52>> }

\* An item of data.events: the signature text, or an event holding it.
Items ==
    [isString : {TRUE}, signature : ItemTexts]
    \cup [isString : {FALSE}, signature : ItemTexts]

\* The computeSignatures handler, the body of its loop: an item without text
\* gets an empty signature and no tokens, any other the MinHash signature of
\* the tokens of its text.
ItemResult(item) ==
    IF item.signature = EmptyString
    THEN [signature |-> << >>, tokens |-> << >>]
    ELSE [signature |-> ComputeSignature(TokenizeForSimilarity(item.signature)),
          tokens |-> TokenizeForSimilarity(item.signature)]

\* performHierarchicalClustering: the signature the main thread computes for
\* an event.
MainSignature(event) == ComputeSignature(TokenizeForSimilarity(event.signature))

\* The computeSignatures handler on data.events: a result per item, in order.
ComputeSignatures ==
    /\ workerResults = << >>
    /\ workerResults' = [k \in 1 .. Len(requestItems) |-> ItemResult(requestItems[k])]
    /\ UNCHANGED requestItems
    /\ UNCHANGED <<poolVars, cacheVars, lshVars, clusterVars, textVars, setupVars,
                   pipelineVars, configVars, storageVars, jaccardVars, keyVars,
                   concurrentVars, lifecycleVars, thresholdVars, roundTripVars>>

\* A request with one item at least.
SignatureInit ==
    /\ requestItems \in UNION { [1 .. n -> Items] : n \in 1 .. MaxItems }
    /\ workerResults = << >>

SignatureNext == ComputeSignatures

(***************************************************************************)
(* Specifications. Each takes one part of the program through its           *)
(* operations; the variables of the other parts stay as they start.        *)
(***************************************************************************)
\* The pool variables of a behaviour that uses no pool.
PoolIdle ==
    /\ workers = << >>
    /\ queue = << >>
    /\ activeTaskCounts = [i \in WorkerIndex |-> 0]
    /\ taskMap = {}
    /\ taskIdCounter = 0
    /\ taskMessage = [t \in TaskIds |-> [type |-> "none", id |-> t, data |-> Undefined]]
    /\ future = [t \in TaskIds |-> [state |-> "none", value |-> Undefined]]
    /\ inbox = [w \in WorkerIndex |-> << >>]
    /\ outbox = [w \in WorkerIndex |-> << >>]
    /\ delivered = {}
    /\ errors = 0
    /\ assigned = {}
    /\ stranded = {}

\* The cache variables of a behaviour that has no cache.
CacheIdle ==
    /\ cacheKind = "none"
    /\ cacheMax = 1
    /\ cacheMap = << >>
    /\ accessOrder = << >>
    /\ recency = << >>
    /\ lookup = NoLookup

\* The LSH variables of a behaviour that builds no index.
LshIdle == LshInit

\* The clustering variables of a behaviour that clusters nothing.
ClusterIdle ==
    /\ events = << >>
    /\ variables = << >>
    /\ templateLines = << >>
    /\ captured = << >>
    /\ features = [hierarchicalClustering |-> FALSE, enhancedTokenization |-> FALSE]
    /\ adaptiveConfig = "none"
    /\ phase = "none"
    /\ cursor = 0
    /\ clusters = << >>
    /\ strategy = << >>
    /\ eventSignatures = << >>
    /\ level = 0
    /\ unassignedEvents = << >>
    /\ processedEvents = {}
    /\ returned = << >>
    /\ firstReturned = << >>
    /\ checkedKeys = << >>

\* The splitting variables of a behaviour that splits no text.
SplitIdle ==
    /\ inputLines = << >>
    /\ logEvents = << >>
    /\ splitReturned = FALSE

\* The pipeline variables of a behaviour that calls no compressLog.
PipelineIdle ==
    /\ pipelineInput = [length |-> 0, events |-> 0, clusterable |-> 0]
    /\ pipelinePhase = "none"
    /\ pipelineOutcome = Undefined
    /\ clusteredEvents = 0

\* The configuration variables of a behaviour that reads no configuration.
ConfigIdle ==
    /\ overrides = << >>
    /\ configCalled = FALSE
    /\ configResult = [threw |-> FALSE, config |-> << >>]

\* The storage variables of a behaviour that reads no stored lines.
StorageIdle ==
    /\ compressedLines = EmptyString
    /\ linesRead = FALSE
    /\ decompressResult = Null
    /\ originalLines = << >>

\* The worker variables of a behaviour in which no worker of this kind runs.
SetupIdle == SetupWorkerInit

\* The variables of the text operations and of the worker in a behaviour
\* that runs none of them.
\* The variables of the behaviours that call no weightedJaccardSimilarity,
\* resolve no configuration and run no two clusterings at once.
JaccardIdle == leftTokens = << >> /\ rightTokens = << >> /\ jaccardResult = << >>
KeyIdle ==
    /\ argumentOverrides = NotGiven
    /\ globalOverrides = NotGiven
    /\ envOverrides = NotGiven
    /\ resolvedConfig = << >>
ConcurrentIdle == clusterings = << >>
LifecycleIdle == terminated = FALSE /\ refused = FALSE /\ scriptPosts = 0
ThresholdIdle ==
    /\ smallerDataset = << >>
    /\ largerDataset = << >>
    /\ smallerThresholds = << >>
    /\ largerThresholds = << >>
SignatureIdle == requestItems = << >> /\ workerResults = << >>
RoundTripIdle == rawText = << >>
AfterIdle == ThresholdIdle /\ SignatureIdle /\ RoundTripIdle
LaterIdle == LifecycleIdle /\ AfterIdle
MoreIdle == JaccardIdle /\ KeyIdle /\ ConcurrentIdle /\ LaterIdle

TextIdle ==
    SplitIdle /\ SetupIdle /\ PipelineIdle /\ ConfigIdle /\ StorageIdle /\ MoreIdle

InitPool == PoolInit /\ CacheIdle /\ LshIdle /\ ClusterIdle /\ TextIdle
SpecPool == InitPool /\ [][PoolNext]_vars

InitCache == CacheInit /\ PoolIdle /\ LshIdle /\ ClusterIdle /\ TextIdle
SpecCache == InitCache /\ [][CacheNext]_vars

InitLsh == LshInit /\ PoolIdle /\ CacheIdle /\ ClusterIdle /\ TextIdle
SpecLsh == InitLsh /\ [][LshNext]_vars

InitCluster == ClusterInit /\ PoolIdle /\ CacheIdle /\ LshIdle /\ TextIdle
SpecCluster == InitCluster /\ [][ClusterNext]_vars

InitVariables == VariablesInit /\ PoolIdle /\ CacheIdle /\ LshIdle /\ TextIdle
SpecVariables == InitVariables /\ [][ClusterNext]_vars

InitSplit ==
    SplitInit /\ PoolIdle /\ CacheIdle /\ LshIdle /\ ClusterIdle /\ SetupIdle /\ PipelineIdle
        /\ ConfigIdle /\ StorageIdle /\ MoreIdle
SpecSplit == InitSplit /\ [][SplitNext]_vars

InitSetupWorker ==
    SetupWorkerInit /\ PoolIdle /\ CacheIdle /\ LshIdle /\ ClusterIdle /\ SplitIdle
        /\ PipelineIdle /\ ConfigIdle /\ StorageIdle /\ MoreIdle
SpecSetupWorker == InitSetupWorker /\ [][SetupWorkerNext]_vars

\* Timers are macrotasks of the worker's event loop: one that is due is run.
FairSetupWorker == SpecSetupWorker /\ WF_vars(Timeouts)

InitPipeline ==
    PipelineInit /\ PoolIdle /\ CacheIdle /\ LshIdle /\ ClusterIdle /\ SplitIdle
        /\ SetupIdle /\ ConfigIdle /\ StorageIdle /\ MoreIdle
SpecPipeline == InitPipeline /\ [][PipelineNext]_vars

InitConfig ==
    ConfigInit /\ PoolIdle /\ CacheIdle /\ LshIdle /\ ClusterIdle /\ SplitIdle
        /\ SetupIdle /\ PipelineIdle /\ StorageIdle /\ MoreIdle
SpecConfig == InitConfig /\ [][ConfigNext]_vars

InitStorage ==
    StorageInit /\ PoolIdle /\ CacheIdle /\ LshIdle /\ ClusterIdle /\ SplitIdle
        /\ SetupIdle /\ PipelineIdle /\ ConfigIdle /\ MoreIdle
SpecStorage == InitStorage /\ [][StorageNext]_vars

InitNear == NearInit /\ PoolIdle /\ CacheIdle /\ LshIdle /\ TextIdle
SpecNear == InitNear /\ [][ClusterNext]_vars

InitJaccard ==
    JaccardInit /\ PoolIdle /\ CacheIdle /\ LshIdle /\ ClusterIdle /\ SplitIdle
        /\ SetupIdle /\ PipelineIdle /\ ConfigIdle /\ StorageIdle /\ KeyIdle
        /\ ConcurrentIdle /\ LaterIdle
SpecJaccard == InitJaccard /\ [][JaccardNext]_vars

InitKey ==
    KeyInit /\ PoolIdle /\ CacheIdle /\ LshIdle /\ ClusterIdle /\ SplitIdle
        /\ SetupIdle /\ PipelineIdle /\ ConfigIdle /\ StorageIdle /\ JaccardIdle
        /\ ConcurrentIdle /\ LaterIdle
SpecKey == InitKey /\ [][KeyNext]_vars

InitConcurrent ==
    ConcurrentInit /\ PoolIdle /\ CacheIdle /\ LshIdle /\ SplitIdle /\ SetupIdle
        /\ PipelineIdle /\ ConfigIdle /\ StorageIdle /\ JaccardIdle /\ KeyIdle
        /\ LaterIdle
SpecConcurrent == InitConcurrent /\ [][ConcurrentNext]_vars

InitLifecycle == PoolInit /\ CacheIdle /\ LshIdle /\ ClusterIdle /\ TextIdle
SpecLifecycle == InitLifecycle /\ [][LifecycleNext]_vars

InitThresholds ==
    ThresholdInit /\ PoolIdle /\ CacheIdle /\ LshIdle /\ ClusterIdle /\ SplitIdle
        /\ SetupIdle /\ PipelineIdle /\ ConfigIdle /\ StorageIdle /\ JaccardIdle
        /\ KeyIdle /\ ConcurrentIdle /\ LifecycleIdle /\ SignatureIdle
        /\ RoundTripIdle
SpecThresholds == InitThresholds /\ [][ThresholdNext]_vars

InitCreated ==
    CreatedInit /\ PoolIdle /\ CacheIdle /\ LshIdle /\ ClusterIdle /\ SplitIdle
        /\ SetupIdle /\ PipelineIdle /\ ConfigIdle /\ JaccardIdle /\ KeyIdle
        /\ ConcurrentIdle /\ LifecycleIdle /\ ThresholdIdle /\ SignatureIdle
SpecCreated == InitCreated /\ [][StorageNext]_vars

InitSignatures ==
    SignatureInit /\ PoolIdle /\ CacheIdle /\ LshIdle /\ ClusterIdle /\ SplitIdle
        /\ SetupIdle /\ PipelineIdle /\ ConfigIdle /\ StorageIdle /\ JaccardIdle
        /\ KeyIdle /\ ConcurrentIdle /\ LifecycleIdle /\ ThresholdIdle /\ RoundTripIdle
SpecSignatures == InitSignatures /\ [][SignatureNext]_vars

(***************************************************************************)
(* The claims.                                                             *)
(***************************************************************************)
\* C1. Once the pool has processed the reply a worker posted for a task, the promise
\* run() returned for that task is settled: resolved with the reply's data when the
\* reply type is 'result', rejected when it is 'error'.
C1_ReplySettlesFuture ==
    \A reply \in delivered :
        /\ reply.type = "result" =>
              future[reply.cause] = [state |-> "resolved", value |-> reply.data]
        /\ reply.type = "error" => future[reply.cause].state = "rejected"

\* C2. When the handler threw while processing task T and the pool has processed
\* the worker's reply, the promise of T is rejected.
C2_ThrowRejectsOnlyThatTask ==
    \A reply \in delivered :
        HandlerThrows(taskMessage[reply.cause]) =>
            future[reply.cause].state = "rejected"

\* The places (cluster, position) at which the event e stands in the returned list.
Places(e) ==
    {place \in (1 .. Len(returned)) \X (1 .. MaxEvents + 1) :
        /\ place[2] <= Len(returned[place[1]].events)
        /\ returned[place[1]].events[place[2]] = e}

\* C3. Under the flat and under the hierarchical strategy every input event is a
\* member of exactly one returned cluster, and the clusters hold nothing but
\* input events.
C3_EveryEventInExactlyOneCluster ==
    phase = "returned" =>
        /\ \A e \in 1 .. Len(events) : Cardinality(Places(e)) = 1
        /\ \A k \in 1 .. Len(returned) :
              Range(returned[k].events) \subseteq 1 .. Len(events)

\* C3 witness: a hierarchical run on three events returned two clusters, one of
\* them with the neighbour the index found for its seed.
C3_Witness ==
    /\ phase = "returned"
    /\ features.hierarchicalClustering
    /\ Len(events) = 3
    /\ Len(returned) = 2
    /\ \E k \in 1 .. Len(returned) : Len(returned[k].events) = 2

\* C4. The primaryCategory of every returned cluster has the largest count in the
\* cluster's categoryCounts, under the flat and under the hierarchical strategy.
C4_PrimaryCategoryHasMaximalCount ==
    phase = "returned" =>
        \A k \in 1 .. Len(returned) :
            \A category \in Categories :
                CountOf(returned[k].categoryCounts, category)
                    <= CountOf(returned[k].categoryCounts, returned[k].primaryCategory)

\* C5. The returned clusters are ordered by non-increasing number of members,
\* whichever strategy produced them.
C5_OrderedBySize ==
    phase = "returned" =>
        \A k \in 1 .. Len(returned) - 1 :
            Len(returned[k].events) >= Len(returned[k + 1].events)

\* The membership of a list of clusters: the members of each cluster with their number.
Membership(list) ==
    {<<Range(list[k].events), Len(list[k].events)>> : k \in 1 .. Len(list)}

C7_EvictsLeastRecentlyAccessed ==
    lookup.evicted # NoKey => lookup.evicted = lookup.lru

\* C8. The number of stored entries of a cache never exceeds its maxSize.
C8_SizeWithinMaxSize == Len(cacheMap) <= cacheMax

\* C8 witness: a full cache whose last insertion evicted an entry.
C8_Witness == Len(cacheMap) = cacheMax /\ lookup.evicted # NoKey

\* C9. Every lookup returns the value the wrapped function returns for the same
\* arguments, whatever lookups came before.
C9_LookupEqualsWrappedFunction ==
    /\ lookup.op = "getTokens" => lookup.result = TokenizeForSimilarity(lookup.args)
    /\ lookup.op = "shouldCluster" =>
          lookup.result = ShouldClusterByStructure(lookup.args[1], lookup.args[2])
    /\ lookup.op = "tfidf" => lookup.result = CalculateTFIDF(lookup.args)

\* C10. Every item a query returns has, by its stored signature, a fraction of
\* positions equal to the queried signature that is at least the threshold.
C10_QueryMeetsThreshold ==
    lshQuery.op = "query" =>
        \A k \in 1 .. Len(lshQuery.results) :
            LET stored == MapGet(lshIndex.items, lshQuery.results[k].itemId)
                equal == Cardinality({i \in 1 .. Len(lshQuery.signature) :
                                         /\ i <= Len(stored)
                                         /\ stored[i] = lshQuery.signature[i]})
            IN lshQuery.threshold[1] * Len(lshQuery.signature)
                  <= equal * lshQuery.threshold[2]

\* C10 witness: a query that returned an item and dropped a candidate, on an index
\* in which an id was added again with another signature.
C10_Witness ==
    /\ lshQuery.op = "query"
    /\ Len(lshQuery.results) > 0
    /\ \E k \in 1 .. Len(Candidates(lshIndex, lshQuery.signature, 0)) :
          \A j \in 1 .. Len(lshQuery.results) :
              lshQuery.results[j].itemId
                  # Candidates(lshIndex, lshQuery.signature, 0)[k]
    /\ \E band \in Bands :
          Len(lshIndex.bands[band]) > 1
          /\ \E itemId \in ItemIds :
                \A k \in 1 .. Len(lshIndex.bands[band]) :
                    itemId \in Range(lshIndex.bands[band][k].value)

\* C11. An add call with a signature whose length differs from bands x rows throws
\* and leaves the index unchanged: the stored items and the buckets of every band
\* are as before the call.
C11_WrongLengthAddThrows ==
    [][(lshQuery'.op = "add" /\ Len(lshQuery'.signature) # NumBands * BandSize)
          => (lshQuery'.threw /\ lshIndex' = lshIndex)]_vars

\* C11 witness: an add call threw on an index that holds items already.
C11_Witness ==
    /\ lshQuery.op = "add"
    /\ lshQuery.threw
    /\ Len(lshQuery.signature) # NumBands * BandSize
    /\ Len(lshIndex.items) > 0

\* C12. Clustering never changes an input event: when buildClustersNoEmbeddings
\* has returned, under the flat or the hierarchical strategy, the variables Map of
\* every event (placeholder to value set) and its template lines are what they
\* were before the call, those of the event that seeded a cluster included.
C12_EventsUnchanged ==
    phase = "returned"
        => /\ variables = captured
           /\ templateLines = [e \in 1 .. Len(events) |-> <<events[e].signature>>]

\* The events of a run that all have the
\* signature of the first and each captured one value of {ID}, no two the same.
SameSignatureDistinctIds ==
    /\ \A e \in 1 .. Len(events) :
          /\ events[e].signature = events[1].signature
          /\ Cardinality(ValuesOf(captured[e], "{ID}")) = 1
    /\ \A e, f \in 1 .. Len(events) :
          e # f => ValuesOf(captured[e], "{ID}") # ValuesOf(captured[f], "{ID}")

\* C20. For every returned cluster and every placeholder, the value set of the
\* cluster is the union of the value sets its member events captured; n events of
\* one signature that differ in the value of one placeholder come back as one
\* cluster of n events that records n distinct values.
C20_ClusterValuesAreUnion ==
    phase = "returned"
        => /\ \A k \in 1 .. Len(returned) : \A placeholder \in Placeholders :
                 ClusterValues(returned[k], placeholder)
                     = UNION { ValuesOf(captured[e], placeholder) :
                                  e \in Range(returned[k].events) }
           /\ SameSignatureDistinctIds
                 => /\ Len(returned) = 1
                    /\ Len(returned[1].events) = Len(events)
                    /\ Cardinality(ClusterValues(returned[1], "{ID}")) = Len(events)

\* C20 witness: a run on three events of one signature returned one cluster
\* with three values of {ID}.
C20_Witness ==
    /\ phase = "returned"
    /\ SameSignatureDistinctIds
    /\ Len(events) > 2
    /\ Len(returned) = 1
    /\ Cardinality(ClusterValues(returned[1], "{ID}")) > 2

\* The event of the returned list that holds the line at position p, 0 when no
\* event does.
EventOf(p) ==
    IF \E k \in 1 .. Len(logEvents) : p \in Range(logEvents[k].originalLines)
    THEN CHOOSE k \in 1 .. Len(logEvents) : p \in Range(logEvents[k].originalLines)
    ELSE 0

\* The line at position p is blank.
BlankLine(p) == Trim(inputLines[p]) = EmptyString

\* C13. In splitIntoEvents a blank line never closes the open event: two lines
\* with only blank lines between them are in the same event, unless the second,
\* the first non-blank line after the blank ones, matches a structural marker.
C13_BlankLineClosesNoEvent ==
    splitReturned
        => \A p, n \in 1 .. Len(inputLines) :
              (/\ p + 1 < n
               /\ \A b \in (p + 1) .. (n - 1) : BlankLine(b)
               /\ ~BlankLine(p) /\ ~IsNoise(inputLines[p])
               /\ ~BlankLine(n) /\ ~IsNoise(inputLines[n])
               /\ ~EventBoundary(inputLines[n], TRUE))
                  => EventOf(p) = EventOf(n)

\* The messages the worker posted for request k.
Replies(k) == SelectSeq(posts, LAMBDA m : m.request = k)

\* Request k has arrived and its type has a registered handler.
Registered(k) == k <= Len(requests) /\ requests[k].type \in Handlers

\* C14. For every request of a known type the worker posts exactly one reply:
\* the handler's complete result if the handler finishes before the timeout,
\* otherwise a single error; once the timeout error is posted, no result is
\* posted for that request any more.
C14_ExactlyOneReply ==
    /\ [](\A k \in 1 .. MaxRequests :
             Registered(k)
                 => /\ Len(Replies(k)) <= 1
                    /\ \A r \in Range(Replies(k)) :
                          IF invocations[k].race = "fulfilled"
                          THEN r = ResultMessage(k, "results")
                          ELSE r.type = "error")
    /\ [][\A k \in 1 .. MaxRequests :
             (Registered(k) /\ ErrorMessage(k, TimeoutMessage) \in Range(posts))
                 => SelectSeq(posts', LAMBDA m : m.request = k) = Replies(k)]_vars
    /\ \A k \in 1 .. MaxRequests : Registered(k) ~> (Len(Replies(k)) = 1)

\* C14 witness: the handler of a request finished after the timeout error was
\* posted, and the error is the only reply to the request.
C14_Witness ==
    \E k \in 1 .. Len(requests) :
        /\ Registered(k)
        /\ invocations[k].timer = "fired"
        /\ invocations[k].handler = "fulfilled"
        /\ Replies(k) = <<ErrorMessage(k, TimeoutMessage)>>

\* C15. A message whose type has no registered handler makes the worker run no
\* handler and post no reply: it is only logged. The worker keeps answering
\* the messages of known types that come later.
C15_UnknownTypeOnlyLogged ==
    /\ [](\A k \in 1 .. Len(requests) :
             requests[k].type \notin Handlers
                 => /\ invocations[k] = NotHandled
                    /\ Replies(k) = << >>
                    /\ requests[k].type \in Range(warnings))
    /\ \A k \in 1 .. MaxRequests :
          (Registered(k) /\ \E j \in 1 .. (k - 1) : requests[j].type \notin Handlers)
              ~> (Len(Replies(k)) > 0)

\* C16. After a worker raised an error event the pool keeps accepting and
\* dispatching the tasks submitted with run(), while every task that was in
\* flight on that worker stays unsettled for ever: its promise is neither
\* resolved nor rejected, and its message is posted to no other worker.
C16_CrashStrandsTasks ==
    /\ [](errors > 0 /\ taskIdCounter < MaxTasks
             => ENABLED (\E messageType \in MessageTypes, data \in PayloadData :
                            Run(messageType, data)))
    /\ [][(errors > 0 /\ taskIdCounter' # taskIdCounter)
             => /\ taskIdCounter' \in taskMap'
                /\ \E w \in WorkerIndex : <<taskIdCounter', w>> \in assigned']_vars
    /\ [](\A t \in stranded :
             /\ future[t] = Pending
             /\ t \in taskMap
             /\ Cardinality({w \in WorkerIndex : <<t, w>> \in assigned}) = 1)

\* C16 witness: a task was in flight on a worker at its error event, the worker
\* has answered it since and the pool has processed the answer, and a task
\* submitted after the error event was dispatched.
C16_Witness ==
    /\ \E reply \in delivered : reply.cause \in stranded
    /\ \E t \in taskMap : \A s \in stranded : t > s

\* C17. An input over a size limit, a raw log larger than MAX_LOG_SIZE_MB or
\* one of more than MAX_EVENTS events, makes the invocation fail with an error
\* that reaches the caller, raised before any event is assigned to a cluster.
C17_OversizedInputFails ==
    (/\ pipelinePhase \in {"clustering", "returned", "failed"}
     /\ \/ pipelineInput.length > MaxLogSizeMB * CharsPerMB
        \/ pipelineInput.events > MaxEventsLimit)
        => /\ pipelinePhase = "failed"
           /\ pipelineOutcome = "Invalid input"
           /\ clusteredEvents = 0

\* A bucket of a latencyBuckets override that is valid: an object whose minMs
\* is a number that is finite and not negative.
ValidBucket(entry) ==
    /\ entry.type = "object"
    /\ IsFinite(ToNumber(entry.minMs))
    /\ ToNumber(entry.minMs).number >= 0

\* C18. getLogPipelineConfig never throws, whatever the overrides of
\* latencyBuckets, statusWeights, messageWeights and noisePatterns: an invalid
\* entry is dropped, and a field of which nothing valid remains has its default.
C18_ConfigNeverThrows ==
    configCalled
        => /\ ~configResult.threw
           /\ \A field \in 1 .. 4 : Len(configResult.config[field]) > 0
           /\ Len(configResult.config[1])
                 = IF \E k \in 1 .. Len(overrides.latencyBuckets.entries) :
                          ValidBucket(overrides.latencyBuckets.entries[k])
                   THEN Cardinality({k \in 1 .. Len(overrides.latencyBuckets.entries) :
                                        ValidBucket(overrides.latencyBuckets.entries[k])})
                   ELSE Len(DefaultLatencyBuckets)

\* A buffer compress can have written: a string shorter than RawLimit, kept
\* as it is, or codes that start with a single character and each stand for
\* an entry of the dictionary built so far.
ValidStream(buffer) ==
    \/ Len(buffer) < RawLimit
    \/ buffer[1] < FirstCodes /\ ~Decompress(buffer).null

\* C19: reading the lines of an event whose buffer is not a valid compressed
\* stream gets null or the empty string from decompress, and the
\* originalLines getter then returns an empty list.
C19_InvalidBufferYieldsNoLines ==
    (linesRead /\ ~ValidStream(compressedLines))
        => /\ decompressResult.null \/ decompressResult.text = EmptyString
           /\ originalLines = << >>

\* C30: while buildClustersAbstract assigns events, the tokenizer and the Jaccard
\* function of the strategy are those the enhancedTokenization flag of the
\* features selects, which buildClustersNoEmbeddings passed to initialize.
C30_FlagSelectsTokenizer ==
    phase = "flat"
        => strategy.useEnhancedTokenization
              = Initialize(FeatureOptions(features)).useEnhancedTokenization

\* C27: the hierarchical passes decrease in strictness: the similarity an event
\* needs at the level of a pass is at most the one it needed at the level of
\* the pass before, getSimilarityThreshold(1) >= (2) >= (3).
C27_PassesDecreaseInStrictness ==
    (phase = "hierarchical" /\ level > 1)
        => RatLessEq(GetSimilarityThreshold(level), GetSimilarityThreshold(level - 1))

\* C28: the first hierarchical pass leaves no event unassigned: the passes 2 and
\* 3 start with an empty pool and form no cluster, and every hierarchical
\* cluster, also when returned, has formation level 1.
C28_FirstPassTakesAll ==
    features.hierarchicalClustering
        => /\ (phase = "hierarchical" /\ level > 1)
                 => /\ unassignedEvents = << >>
                    /\ processedEvents = 1 .. Len(events)
           /\ \A k \in 1 .. Len(clusters) : clusters[k].similarityLevel = 1
           /\ \A k \in 1 .. Len(returned) : returned[k].similarityLevel = 1

\* The third pass is reached with two clusters, one of them of two events.
C28_Witness ==
    /\ phase = "hierarchical"
    /\ level = 3
    /\ Len(clusters) = 2
    /\ \E k \in 1 .. 2 : Len(clusters[k].events) = 2

\* C29: a hierarchical cluster never changes once it was formed; no later pass
\* adds an event to, removes an event from, or raises the formation level of a
\* cluster an earlier pass formed.
C29_FormedClustersStay ==
    [][phase = "hierarchical"
          => /\ Len(clusters') >= Len(clusters)
             /\ \A k \in 1 .. Len(clusters) :
                    /\ clusters'[k].events = clusters[k].events
                    /\ clusters'[k].similarityLevel = clusters[k].similarityLevel]_vars

\* The clusters of the first pass, one of two events, are returned after the
\* second and the third pass.
C29_Witness ==
    /\ phase = "returned"
    /\ features.hierarchicalClustering
    /\ level = 3
    /\ Len(returned) >= 2
    /\ \E k \in 1 .. Len(returned) : Len(returned[k].events) >= 2

\* C26: under the flat strategy an event joins a cluster under a key that is
\* not its own signature only if the cluster existed with the category of the
\* event as its primary category at that moment.
C26_SimilarityKeepsCategory ==
    [][(phase = "flat" /\ cursor' = cursor + 1)
          => \A k \in 1 .. Len(clusters') :
                (/\ cursor' \in Range(clusters'[k].value.events)
                 /\ clusters'[k].key # events[cursor'].signature)
                    => /\ MapHas(clusters, clusters'[k].key)
                       /\ MapGet(clusters, clusters'[k].key).primaryCategory
                             = GetEventCategory(events[cursor'])]_vars

\* A flat cluster holds an event whose signature is not the key of the cluster.
C26_Witness ==
    /\ phase = "flat"
    /\ \E k \in 1 .. Len(clusters) :
          \E e \in Range(clusters[k].value.events) :
              events[e].signature # clusters[k].key

\* C25: the keys findSimilarClusterKey goes through for an event are at most
\* MaxComparisons and are the clusters created last: they form a suffix of the
\* keys of the cluster Map in the order of their creation.
C25_ChecksNewestClusters ==
    [][(phase = "flat" /\ cursor' = cursor + 1)
          => /\ Len(checkedKeys') <= MaxComparisons
             /\ \E first \in 1 .. (Len(clusters) + 1) :
                   checkedKeys'
                      = [k \in 1 .. (Len(clusters) - first + 1) |->
                            clusters[first + k - 1].key]]_vars

\* The edit distance and the Jaccard similarity of a cluster key and the event
\* at position e, as the strategy in effect computes them.
KeyDistance(key, e) == NormalizedLevenshtein(key, events[e].signature)
KeyJaccard(key, e) ==
    IF strategy.useEnhancedTokenization
    THEN WeightedJaccardSimilarity(TokenizeEnhanced(events[e].signature),
                                   TokenizeEnhanced(key))
    ELSE JaccardSimilarity(TokenizeForSimilarity(events[e].signature),
                           TokenizeForSimilarity(key))

\* The key qualifies for the event at position e: its distance is not above the
\* loose threshold, and is within the strict one or the Jaccard similarity
\* reaches its threshold.
Qualifies(key, e) ==
    LET thresholds == CalculateAdaptiveThresholds(events, adaptiveConfig)
    IN /\ ~RatLess(thresholds.distanceThreshold, KeyDistance(key, e))
       /\ \/ RatLessEq(KeyDistance(key, e), thresholds.distanceStrict)
          \/ RatLessEq(thresholds.jaccardThreshold, KeyJaccard(key, e))

\* The first key is at least as good for the event at position e as the other.
NoWorse(key, other, e) ==
    \/ RatLess(KeyDistance(key, e), KeyDistance(other, e))
    \/ /\ RatEq(KeyDistance(key, e), KeyDistance(other, e))
       /\ RatLessEq(KeyJaccard(other, e), KeyJaccard(key, e))

\* C24: when the signature of an event is no key yet and none of the keys
\* examined for it matches structurally, the event joins the cluster of a
\* qualifying examined key of its category of the lowest distance, the higher
\* Jaccard similarity deciding between equal distances, and a cluster of its
\* own when no key qualifies.
C24_BestQualifyingKey ==
    [][(/\ phase = "flat"
        /\ cursor' = cursor + 1
        /\ ~MapHas(clusters, events[cursor'].signature)
        /\ \A key \in Range(checkedKeys') :
              ~ShouldClusterByStructure(events[cursor'].signature, key))
          => LET e == cursor'
                 qualifying ==
                     { key \in Range(checkedKeys') :
                         /\ MapGet(clusters, key).primaryCategory
                               = GetEventCategory(events[e])
                         /\ Qualifies(key, e) }
                 joined == { clusters'[k].key : k \in { k \in 1 .. Len(clusters') :
                                 e \in Range(clusters'[k].value.events) } }
             IN IF qualifying = {} THEN joined = {events[e].signature}
                ELSE \E key \in qualifying :
                        /\ joined = {key}
                        /\ \A other \in qualifying : NoWorse(key, other, e)]_vars

\* The third event found two qualifying keys and joined the cluster created
\* second, whose key is nearer to it than the key of the first.
C24_Witness ==
    /\ phase = "returned"
    /\ ~features.hierarchicalClustering
    /\ cursor = 3
    /\ Len(clusters) = 2
    /\ Len(checkedKeys) = 2
    /\ 3 \in Range(clusters[2].value.events)
    /\ events[3].signature # clusters[2].key
    /\ Qualifies(clusters[1].key, 3)
    /\ Qualifies(clusters[2].key, 3)
    /\ RatLess(KeyDistance(clusters[2].key, 3), KeyDistance(clusters[1].key, 3))

\* C22: weightedJaccardSimilarity(A, B) lies between 0 and 1, is 1 when B is the
\* same list as a non-empty A, and is 0 when one of the lists is empty.
C22_WeightedJaccardInUnitInterval ==
    jaccardResult # << >>
        => /\ jaccardResult[2] > 0
           /\ 0 <= jaccardResult[1]
           /\ jaccardResult[1] <= jaccardResult[2]
           /\ (leftTokens = rightTokens /\ Len(leftTokens) > 0)
                 => jaccardResult[1] = jaccardResult[2]
           /\ (Len(leftTokens) = 0 \/ Len(rightTokens) = 0) => jaccardResult[1] = 0

\* The similarity of a list of two different tokens with itself was computed.
C22_Witness ==
    /\ jaccardResult # << >>
    /\ Len(leftTokens) = 2
    /\ leftTokens[1] # leftTokens[2]
    /\ leftTokens = rightTokens

\* The source whose value of a key getLogPipelineConfig is to take: the
\* argument, else globalThis.LOGSLIMMER_CONFIG, else LOGSLIMMER_CONFIG_JSON when
\* the former is not set.
Supplied ==
    Spread(ResolveGlobalOverrides(globalOverrides, envOverrides),
           argumentOverrides.entries)

\* C23: every key field supplied as an override, by argument, by
\* globalThis.LOGSLIMMER_CONFIG or by LOGSLIMMER_CONFIG_JSON, is in the resolved
\* configuration with the value supplied.
C23_KeyFieldsResolved ==
    resolvedConfig # << >>
        => \A k \in 1 .. Len(Supplied) :
              /\ MapHas(resolvedConfig, Supplied[k].key)
              /\ MapGet(resolvedConfig, Supplied[k].key) = Supplied[k].value

\* The clusters buildClustersAbstract returns for the events at the positions,
\* when no other call is in flight: the events in order, each joining the
\* cluster under the key the strategy finds for it.
RECURSIVE AloneFrom(_, _, _, _, _)
AloneFrom(st, map, positions, k, thresholds) ==
    IF k > Len(positions)
    THEN SortBySize(map)
    ELSE LET found == FindOrCreateClusterKey(st, map, events[positions[k]], thresholds)
         IN AloneFrom(found.st, AddToCluster(map, found.key, positions[k]),
                      positions, k + 1, thresholds)

RunAlone(positions) ==
    AloneFrom(Initialize(DriverOptions), << >>, positions, 1,
              CalculateAdaptiveThresholds(EventsOf(positions), adaptiveConfig))

\* A step of one call leaves the cluster Map, the strategy and its caches of the
\* other call as they were.
OthersUntouched ==
    \A call \in Calls :
        clusterings'[call] # clusterings[call]
            => \A other \in Calls \ {call} : clusterings'[other] = clusterings[other]

\* C21: of two calls of buildClustersNoEmbeddings in flight at once on
\* different event lists, interleaved at the awaits of the driver, each returns
\* the clusters it returns when run alone, and no step of a call changes the
\* cluster Map, the strategy or the caches of the other.
C21_ConcurrentCallsAsAlone ==
    /\ [](\A call \in Calls :
             clusterings # << >> /\ clusterings[call].phase = "returned"
                 => clusterings[call].returned = RunAlone(clusterings[call].positions))
    /\ [][clusterings # << >> => OthersUntouched]_vars

\* Both calls returned, each after two events that joined one cluster; the events
\* of the first call differ in signature, and the second call has an event with
\* a signature of the first.
C21_Witness ==
    /\ clusterings # << >>
    /\ \A call \in Calls :
          /\ clusterings[call].phase = "returned"
          /\ Len(clusterings[call].positions) = 2
          /\ Len(clusterings[call].returned) = 1
    /\ events[1].signature # events[2].signature
    /\ events[1].signature = events[3].signature

\* C37: after terminate() no step settles a promise, creates a task, queues or
\* dispatches one, so that every task that was queued or in flight stays
\* unsettled for ever; and run() on the terminated pool throws instead of
\* queueing a task.
C37_TerminatedPoolIsInert ==
    /\ [][terminated'
             => /\ future' = future
                /\ taskIdCounter' = taskIdCounter
                /\ queue' = << >>
                /\ assigned' = assigned]_vars
    /\ [](terminated
             => /\ ~ENABLED Run("computeSignatures", "events")
                /\ ENABLED RunThrows)

\* C37 witness: the pool was terminated with a task unsettled, the pool has
\* since handled every message the workers had posted, one of them posted by a
\* worker script with an id, and a later run() has thrown.
C37_Witness ==
    /\ terminated
    /\ refused
    /\ scriptPosts > 0
    /\ \A w \in WorkerIndex : outbox[w] = << >>
    /\ \E t \in 1 .. taskIdCounter : future[t] = Pending /\ \E w \in WorkerIndex : <<t, w>> \in assigned

\* The sum of the load counts.
RECURSIVE TotalLoad(_, _)
TotalLoad(counts, i) ==
    IF i = PoolSize THEN 0 ELSE counts[i] + TotalLoad(counts, i + 1)

Settled(t) == future[t].state \in {"resolved", "rejected"}

\* C36: a promise that is settled never changes again, a promise is settled
\* only for a task that leaves the task map, a task that left the task map
\* never enters it again, and the load counts go down by at most one for each
\* task that leaves the task map: a second reply with the id of a task, or a
\* reply with the id of no task, changes nothing.
C36_SettledAtMostOnce ==
    [][/\ \A t \in TaskIds :
             /\ Settled(t) => future'[t] = future[t]
             /\ future'[t] # future[t] /\ future[t] = Pending
                   => t \in taskMap /\ t \notin taskMap'
             /\ t \in taskMap' /\ t \notin taskMap
                   => ~Settled(t) /\ \A w \in WorkerIndex : <<t, w>> \notin assigned
       /\ TotalLoad(activeTaskCounts, 0) - TotalLoad(activeTaskCounts', 0)
              <= Cardinality(taskMap \ taskMap') - Cardinality(taskMap' \ taskMap)]_vars

\* C36 witness: a task is resolved, the pool has handled all the messages of
\* the workers, two of them posted by worker scripts with the id of that task
\* or of no task, and no other task was created.
C36_Witness ==
    /\ taskIdCounter = 1
    /\ future[1].state = "resolved"
    /\ scriptPosts = 2
    /\ ~terminated
    /\ \A w \in WorkerIndex : outbox[w] = << >>

\* C34: the task that is dispatched is the head of the queue, or the task just
\* submitted when the queue is empty, and the worker it is posted to had, before
\* its count was incremented, a count below that of every worker at a lower
\* position and not above that of any worker at a higher position.
C34_HeadToLeastLoaded ==
    [][\A t \in TaskIds, w \in WorkerIndex :
          <<t, w>> \in assigned' \ assigned
              => /\ t = IF queue # << >> THEN Head(queue) ELSE taskIdCounter'
                 /\ \A s \in 1 .. (t - 1) : \E v \in WorkerIndex : <<s, v>> \in assigned
                 /\ \E p \in 1 .. Len(workers) :
                       /\ workers[p] = w
                       /\ \A j \in 1 .. Len(workers) :
                             /\ j < p => activeTaskCounts'[j - 1] > activeTaskCounts'[p - 1] - 1
                             /\ j > p => activeTaskCounts'[j - 1] >= activeTaskCounts'[p - 1] - 1]_vars

\* C34 witness: with two workers, both idle, the first task went to the first
\* worker and the second task, the first still in flight, to the second.
C34_Witness ==
    /\ Len(workers) = 2
    /\ taskMap = {1, 2}
    /\ assigned = {<<1, workers[1]>>, <<2, workers[2]>>}

\* The tasks posted to the worker at position i of WorkerPool.workers, counted
\* from 0, that are not settled.
Unsettled(i) ==
    {t \in 1 .. taskIdCounter : future[t] = Pending /\ <<t, workers[i + 1]>> \in assigned}

\* C35: no load count is negative, and until terminate() the count at a position
\* is the number of tasks posted to the worker at that position that are not
\* settled, 0 at a position without worker.
C35_CountsAreLoads ==
    \A i \in WorkerIndex :
        /\ activeTaskCounts[i] >= 0
        /\ ~terminated
              => activeTaskCounts[i] = IF i < Len(workers) THEN Cardinality(Unsettled(i)) ELSE 0

\* C31: compressLog, which runLogSlimmerPipeline returns, answers every text
\* that is not blank and within the size limits with a summary, also a text of
\* which no event is left to cluster. A text of the model is blank when it is
\* empty.
C31_NonBlankInputReturnsSummary ==
    (/\ pipelinePhase \in {"returned", "failed"}
     /\ pipelineInput.length > 0
     /\ pipelineInput.length <= MaxLogSizeMB * CharsPerMB
     /\ pipelineInput.clusterable <= MaxEventsLimit)
        => /\ pipelinePhase = "returned"
           /\ pipelineOutcome = "report"

\* C38: of two datasets, the second with no fewer events and no shorter
\* signatures, the second has edit-distance thresholds that are not above and a
\* Jaccard threshold that is not below those of the first.
C38_ThresholdsNeverLoosen ==
    smallerThresholds # << >>
        => /\ RatLessEq(largerThresholds.distanceThreshold, smallerThresholds.distanceThreshold)
           /\ RatLessEq(largerThresholds.distanceStrict, smallerThresholds.distanceStrict)
           /\ RatLessEq(smallerThresholds.jaccardThreshold, largerThresholds.jaccardThreshold)

\* C39: the lines read from an event are the lines it was created from:
\* decompress returns the text compress was given, and originalLines is that
\* text split at the line feeds.
C39_OriginalLinesRoundTrip ==
    linesRead
        => /\ decompressResult = Decoded(rawText)
           /\ originalLines = SplitLines(rawText, EmptyString)

\* C40: the reply to a computeSignatures request holds a result per item, in
\* the order of the items, and the signature of each result is the signature
\* the main thread computes for the text of the item: of the length of the
\* MinHash, every position infinite when the text has no tokens.
C40_WorkerSignatureAsMainThread ==
    workerResults # << >>
        => /\ Len(workerResults) = Len(requestItems)
           /\ \A k \in 1 .. Len(requestItems) :
                 /\ workerResults[k].signature = MainSignature(requestItems[k])
                 /\ Len(workerResults[k].signature) = NumHashes
                 /\ TokenizeForSimilarity(requestItems[k].signature) = << >>
                       => \A i \in 1 .. NumHashes : workerResults[k].signature[i] = Infinity

\* C32: under the flat strategy the events of one signature are all in one of
\* the returned clusters.
C32_SameSignatureSameCluster ==
    (phase = "returned" /\ ~features.hierarchicalClustering)
        => \A e1, e2 \in 1 .. Len(events) :
              events[e1].signature = events[e2].signature
                  => \E k \in 1 .. Len(returned) :
                        {e1, e2} \subseteq Range(returned[k].events)

\* The members of a cluster are those it had, in their places, and perhaps more.
Grown(before, after) ==
    /\ Len(before) <= Len(after)
    /\ \A i \in 1 .. Len(before) : after[i] = before[i]

\* C33: while buildClustersAbstract assigns the events, between two events as
\* after the last, every cluster of the Map has a member, the first of its
\* members is its firstEvent, and a turn of the loop leaves every cluster in
\* the Map, under its key and at its place, with the members it had in the
\* places they had.
C33_ClustersOnlyGrow ==
    /\ []((phase = "flat" /\ ~features.hierarchicalClustering)
             => \A k \in 1 .. Len(clusters) :
                   /\ Len(clusters[k].value.events) >= 1
                   /\ clusters[k].value.events[1] = clusters[k].value.firstEvent)
    /\ [][(phase = "flat" /\ ~features.hierarchicalClustering)
             => /\ Len(clusters) <= Len(clusters')
                /\ \A k \in 1 .. Len(clusters) :
                      /\ clusters'[k].key = clusters[k].key
                      /\ clusters'[k].value.firstEvent = clusters[k].value.firstEvent
                      /\ Grown(clusters[k].value.events, clusters'[k].value.events)]_vars

\* C33 witness: between the second and the third event, the Map holds one
\* cluster of two members, the second of another signature than the first.
C33_Witness ==
    /\ phase = "flat"
    /\ ~features.hierarchicalClustering
    /\ cursor = 2
    /\ Len(events) = 3
    /\ Len(clusters) = 1
    /\ clusters[1].value.events = <<1, 2>>
    /\ events[1].signature # events[2].signature
=============================================================================
